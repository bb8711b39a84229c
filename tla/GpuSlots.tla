------------------------------ MODULE GpuSlots ------------------------------
(***************************************************************************)
(* The Vulkan backend's two frames in flight (gxv.c).  The consumer        *)
(* records commands into one slot -- a command buffer with its half of the *)
(* texel pool -- while the GPU runs the other.  What a slot holds for      *)
(* guest RAM, for the renderer's screen and for the presenter is handed    *)
(* over when it is finished.  A command is one step of the consumer, which *)
(* waits for the GPU inside it; the GPU runs submissions whole and in      *)
(* order, each behind the barrier of begin_cb.                             *)
(***************************************************************************)
EXTENDS BackendConstants, SequencesExt, FiniteSetsExt

VARIABLES
    seq,          \* g_seq_cur: the next command's number
    g,            \* what the consumer and the GPU hold: see Init
    window,       \* g_scr_front, the window's
    pair,         \* the frame whose in-between copy is to come, or none
    exact         \* RAM as if each copy had landed at once (not in the code)

vars == <<seq, g, window, pair, exact>>

Slots == 0 .. NSlots - 1
Cells == UNION {k.span : k \in Spans}
Texture(t) == [kind |-> "texture", n |-> t]
CopyOf(c) == [kind |-> "copy", n |-> c]
Nothing == Texture(0)
NoPair == [frame |-> 0, sync |-> FALSE]

InSlots(x) == [s \in Slots |-> x]
InPictures(x) == [t \in 0 .. 2 |-> x]

Init ==
    /\ seq = 0 /\ window = 2 /\ pair = NoPair
    /\ exact = [c \in Cells |-> 0]
    /\ g = [cur |-> 0,
            \* A slot: recording, in flight, run by the GPU; what it records; what it has to
            \* hand over; what the other slot's carries read of its half.
            rec |-> InSlots(FALSE), inflight |-> InSlots(FALSE), done |-> InSlots(FALSE),
            ops |-> InSlots(<<>>), lands |-> InSlots(<<>>), cimg |-> InSlots({}),
            deliver |-> InSlots({}), publish |-> InSlots(FALSE), carried |-> InSlots({}),
            used |-> 0, resident |-> {},                      \* g_pool_used, g_resident
            pool |-> InSlots([a \in 1 .. HalfRoom |-> Nothing]),
            ram |-> exact, filled |-> {}, said |-> 0,         \* copy images landed; g_landed_said
            back |-> 0, middle |-> 1, fresh |-> FALSE,        \* the screens: whose frame, real and
            real |-> InPictures(0), mid |-> InPictures(0), has |-> InPictures(FALSE),  \* in between
            screen |-> [is |-> 0, due |-> 0],                 \* g_screen, and whose it should be
            missed |-> FALSE]                                 \* a draw has sampled another's texels

Other(h) == IF NSlots = 2 THEN 1 - h.cur ELSE h.cur
InFlight(h) == Other(h) # h.cur /\ h.inflight[Other(h)]

-----------------------------------------------------------------------------
(* The GPU. *)

\* What a place of a slot's half holds before its i-th operation: what the last
\* one that wrote it put there.  A carry reads the other half, which the slot's own
\* operations leave as it is.
Held(h, s, i, a) ==
    LET ops == h.ops[s]
        wrote == {j \in 1 .. i - 1 : ops[j].op \in {"image", "carry"} /\ ops[j].at = a}
        last == ops[Max(wrote)]
    IN IF wrote = {} THEN h.pool[s][a]
       ELSE IF last.op = "image" THEN last.want ELSE h.pool[1 - s][last.from]

\* Of the picture in a screen slot, what was drawn into it last.
Drawn(h, s, op, t) ==
    LET ops == h.ops[s]
        wrote == {j \in DOMAIN ops : ops[j].op = op /\ ops[j].slot = t}
    IN IF wrote = {} THEN h[op][t] ELSE ops[Max(wrote)].frame

Missed(h, s) ==
    LET ops == h.ops[s]
    IN \E i \in DOMAIN ops : ops[i].op = "sample" /\ Held(h, s, i, ops[i].at) # ops[i].want

Ran(h, s) ==
    IF h.done[s] THEN h
    ELSE [h EXCEPT !.missed = @ \/ Missed(h, s),
                   !.pool[s] = [a \in 1 .. HalfRoom |-> Held(h, s, Len(h.ops[s]) + 1, a)],
                   !.real = [t \in 0 .. 2 |-> Drawn(h, s, "real", t)],
                   !.mid = [t \in 0 .. 2 |-> Drawn(h, s, "mid", t)],
                   !.done[s] = TRUE, !.ops[s] = <<>>]

-----------------------------------------------------------------------------
(* Submitting a slot and finishing it. *)

\* say_landed: up to the first copy still to land, in either slot.
SayLanded_Recording(h, through) ==
    LET l == h.lands[h.cur]
    IN [h EXCEPT !.said = Max({@, IF l = <<>> THEN through ELSE Min({through, l[1].seq})})]
SayLanded(h, through) ==
    LET held == {s \in Slots : h.lands[s] # <<>>}
    IN [h EXCEPT !.said = Max({@, Min({through} \cup {h.lands[s][1].seq : s \in held})})]

\* Where two lie over one cell the later lands on the earlier.
Landed(h, s, c) ==
    LET lands == h.lands[s]
        over == {i \in DOMAIN lands : c \in DOMAIN lands[i].bytes}
    IN IF over = {} THEN h.ram[c] ELSE lands[Max(over)].bytes[c]
ImagesOf(lands) == {l.seq : l \in {m \in ToSet(lands) : m.image}}
LandSlot(h, s) ==
    [h EXCEPT !.ram = [c \in Cells |-> Landed(h, s, c)],
              !.filled = @ \cup ImagesOf(h.lands[s]),
              !.lands[s] = <<>>, !.cimg[s] = {}]

\* gxr_backend_screen_late
Deliver(h, s) ==
    [h EXCEPT !.screen = IF h.deliver[s] = {} THEN @
                         ELSE LET d == CHOOSE x \in h.deliver[s] : TRUE
                              IN [is |-> h.real[d.slot], due |-> d.frame],
              !.deliver[s] = {}]
PublishScreen(h) ==
    [h EXCEPT !.back = h.middle, !.middle = h.back, !.fresh = TRUE]
PublishDue(h, s) ==
    IF h.publish[s] THEN [PublishScreen(h) EXCEPT !.publish[s] = FALSE] ELSE h

\* slot_finish: its carries have run, and read the other half no more.
Finish(h, s) ==
    IF ~h.inflight[s] THEN h
    ELSE LET ran == [Ran(h, s) EXCEPT !.inflight[s] = FALSE,
                        !.carried = [t \in Slots |-> IF t = s THEN @[t] ELSE {}]]
         IN SayLanded(PublishDue(Deliver(LandSlot(ran, s), s), s), seq)

\* finish_all: the older first.
FinishAll(h) == Finish(Finish(h, Other(h)), h.cur)
\* slot_poll
Poll(h) == IF InFlight(h) /\ h.done[Other(h)] THEN Finish(h, Other(h)) ELSE h

SubmitGo(h) == [h EXCEPT !.rec[h.cur] = FALSE, !.inflight[h.cur] = TRUE,
                         !.done[h.cur] = FALSE]
\* slot_enter: its half empty, and nothing resident in this epoch.
Enter(h, s) == [h EXCEPT !.cur = s, !.used = 0, !.resident = {}]
SubmitNext(h) ==
    IF h.rec[h.cur] THEN Enter(Finish(SubmitGo(h), Other(h)), Other(h)) ELSE h
SubmitWait(h) ==
    IF h.rec[h.cur] THEN Enter(FinishAll(SubmitGo(h)), h.cur) ELSE FinishAll(h)

\* begin_cb, and what a command records.
Record(h, ops) == [h EXCEPT !.rec[h.cur] = TRUE, !.ops[h.cur] = @ \o ops]

-----------------------------------------------------------------------------
(* A draw's texture. *)

\* Where a set of [content, at] has x, if it has.
Places(set, x) == {e.at : e \in {d \in set : d.content = x}}
Full(h) == h.used = HalfRoom

\* carry_copy_image: a copy's image out of the half of the slot in flight.
Carry(h, x) ==
    LET o == Other(h)
        from == CHOOSE a \in Places(h.cimg[o], x) : TRUE
        to == h.used + 1
    IN [Record(h, <<[op |-> "carry", at |-> to, from |-> from]>>)
           EXCEPT !.carried[o] = @ \cup {from},
                  !.cimg[h.cur] = @ \cup {[content |-> x, at |-> to]}, !.used = to]

\* pool_claim: a carry in flight may still read the texels about to be written.
PoolClaim_Never(h) == h
PoolClaim(h) ==
    LET c == h.carried[h.cur]
    IN IF c # {} /\ h.used + 1 \in Min(c) .. Max(c) THEN Finish(h, Other(h)) ELSE h

\* A texture as the producer has it, a copy's image empty until it lands.
HostUpload(h, x) ==
    LET k == PoolClaim(h)
        to == k.used + 1
        there == x.kind = "texture" \/ x.n \in k.filled
    IN [k EXCEPT !.pool[k.cur][to] = IF there THEN x ELSE Nothing, !.used = to,
                 !.resident = @ \cup {[content |-> x, at |-> to]}]

\* upload_texture: the state after it and the place, 0 when the half is full.
AsTexture(h, x) ==
    IF Places(h.resident, x) # {} THEN [h |-> h, at |-> Max(Places(h.resident, x))]
    ELSE IF Full(h) THEN [h |-> h, at |-> 0]
    ELSE LET k == HostUpload(h, x) IN [h |-> k, at |-> k.used]
Upload(h, x) ==
    LET mine == Places(h.cimg[h.cur], x)
        theirs == InFlight(h) /\ Places(h.cimg[Other(h)], x) # {}
        room == ~Full(h) /\ Cardinality(h.cimg[h.cur]) < LandMax
    IN IF mine # {} THEN [h |-> h, at |-> Max(mine)]
       ELSE IF ~theirs THEN AsTexture(h, x)
       ELSE IF room THEN [h |-> Carry(h, x), at |-> h.used + 1]
       ELSE AsTexture(Finish(h, Other(h)), x)

-----------------------------------------------------------------------------
(* The consumer's commands. *)

Command == seq < MaxCommands /\ seq' = seq + 1

\* What the producer has decoded, and the copies' images it still names.
Images == g.filled \cup UNION {ImagesOf(g.lands[s]) : s \in Slots}
Sampled == {Texture(t) : t \in Textures} \cup {CopyOf(c) : c \in Images}

\* timed_draw, emit: the vertices' or the records' half may be full first.
Draw(x, full) ==
    LET polled == Poll(g)
        h == IF full THEN SubmitNext(polled) ELSE polled
        first == Upload(h, x)
        put == IF first.at = 0 THEN Upload(SubmitNext(first.h), x) ELSE first
    IN /\ Command /\ pair = NoPair
       /\ full => \E o \in ToSet(g.ops[g.cur]) : o.op = "sample"
       /\ g' = Record(put.h, <<[op |-> "sample", at |-> put.at, want |-> x]>>)
       /\ UNCHANGED <<window, pair, exact>>

\* timed_clear
Clear ==
    /\ Command /\ g' = Record(Poll(g), <<>>)
    /\ UNCHANGED <<window, pair, exact>>

\* copy_texture: a copy still to land under its bytes lands first, as its seed
\* holds what that one wrote.
Overlaps(h, s, k) == \E l \in ToSet(h.lands[s]) : DOMAIN l.bytes \cap k.span # {}
LandFirst_Recording(h, k) == IF Overlaps(h, h.cur, k) THEN SubmitWait(h) ELSE h
LandFirst(h, k) ==
    IF Overlaps(h, h.cur, k) THEN SubmitWait(h)
    ELSE IF InFlight(h) /\ Overlaps(h, Other(h), k) THEN Finish(h, Other(h)) ELSE h
MakeRoom(h) == IF Full(h) \/ Len(h.lands[h.cur]) = LandMax THEN SubmitNext(h) ELSE h
CopyRecorded(h, k) ==
    LET at == h.used + 1
        c == CopyOf(seq)
        bytes == [x \in k.span |-> IF x \in k.writes THEN seq + 1 ELSE h.ram[x]]
    IN [Record(h, <<[op |-> "image", at |-> at, want |-> c]>>)
           EXCEPT !.used = at,
                  !.cimg[h.cur] = IF k.image THEN @ \cup {[content |-> c, at |-> at]} ELSE @,
                  !.lands[h.cur] = Append(@, [seq |-> seq, bytes |-> bytes, image |-> k.image])]
SendAhead(h) ==
    IF ~Early \/ NSlots = 1 THEN h
    ELSE LET p == Poll(h) IN IF InFlight(p) THEN p ELSE SubmitNext(p)
CopyTexture(k) ==
    /\ Command /\ pair = NoPair
    /\ g' = SayLanded(SendAhead(CopyRecorded(MakeRoom(LandFirst(Poll(g), k)), k)), seq + 1)
    /\ exact' = [c \in Cells |-> IF c \in k.writes THEN seq + 1 ELSE exact[c]]
    /\ UNCHANGED <<window, pair>>

\* copy_screen: a frame in flight is handed over before this one's copies go in.
HandOver_Never(h) == h
HandOver(h) ==
    LET o == Other(h)
    IN IF h.inflight[o] /\ (h.publish[o] \/ h.deliver[o] # {}) THEN Finish(h, o) ELSE h
\* screen_end
ScreenEnd(h, sync) ==
    IF sync THEN PublishScreen(h) ELSE SubmitNext([h EXCEPT !.publish[h.cur] = TRUE])

\* The real picture, the frame's last unless an in-between one follows.
CopyReal(last, sync) ==
    LET h == HandOver(Poll(g))
        frame == seq + 1
        drawn == Record(h, <<[op |-> "real", slot |-> h.back, frame |-> frame]>>)
        read == SubmitWait(drawn)
        taken == IF sync THEN [read EXCEPT !.screen = [is |-> read.real[h.back], due |-> frame]]
                 ELSE [drawn EXCEPT !.deliver[h.cur] = {[slot |-> h.back, frame |-> frame]}]
        made == [taken EXCEPT !.has[h.back] = FALSE]
    IN /\ Command /\ pair = NoPair
       /\ g' = SayLanded(IF last THEN ScreenEnd(made, sync) ELSE made, seq + 1)
       /\ pair' = IF last THEN NoPair ELSE [frame |-> frame, sync |-> sync]
       /\ UNCHANGED <<window, exact>>

\* The in-between picture, into the same slot's partner.
CopyMid ==
    LET h == HandOver(Poll(g))
        drawn == Record(h, <<[op |-> "mid", slot |-> h.back, frame |-> pair.frame]>>)
        made == [IF pair.sync THEN SubmitWait(drawn) ELSE drawn EXCEPT !.has[h.back] = TRUE]
    IN /\ pair # NoPair /\ seq' = seq + 1      \* its frame's end, past the bound or not
       /\ g' = SayLanded(ScreenEnd(made, pair.sync), seq + 1)
       /\ pair' = NoPair
       /\ UNCHANGED <<window, exact>>

-----------------------------------------------------------------------------
(* Between commands. *)

\* timed_idle: its copies to land, or a slot in flight.
IdleHasWork_Recording(h) == h.lands[h.cur] # <<>>
IdleHasWork(h) == h.lands[h.cur] # <<>> \/ InFlight(h)
Idle ==
    /\ IdleHasWork(g)
    /\ g' = IF g.lands[g.cur] # <<>> THEN SubmitWait(g) ELSE FinishAll(g)
    /\ UNCHANGED <<seq, window, pair, exact>>

\* timed_reset_efb and timed_settle, on the producer with the queue drained.
ResetEfb ==
    /\ pair = NoPair /\ g' = Record(FinishAll(g), <<>>)
    /\ UNCHANGED <<seq, window, pair, exact>>
Settle ==
    /\ pair = NoPair /\ InFlight(g) /\ g' = FinishAll(g)
    /\ UNCHANGED <<seq, window, pair, exact>>

\* The GPU runs what it was given.
Gpu ==
    /\ InFlight(g) /\ ~g.done[Other(g)]
    /\ g' = Ran(g, Other(g))
    /\ UNCHANGED <<seq, window, pair, exact>>

\* gxv_present: the window takes the newest.
Take ==
    /\ g.fresh
    /\ g' = [g EXCEPT !.middle = window, !.fresh = FALSE]
    /\ window' = g.middle
    /\ UNCHANGED <<seq, pair, exact>>

Next ==
    \/ \E x \in Sampled, full \in BOOLEAN : Draw(x, full)
    \/ Clear
    \/ \E k \in Spans : CopyTexture(k)
    \/ \E last, sync \in BOOLEAN : CopyReal(last, sync)
    \/ CopyMid
    \/ Settle \/ Idle \/ ResetEfb \/ Gpu \/ Take

Spec == Init /\ [][Next]_vars

-----------------------------------------------------------------------------

\* Every draw samples the texels it was recorded with: no upload, carry or
\* copy of either slot has changed them before the GPU reads them
\* (append-only halves, carry_copy_image, pool_claim).
DrawsSampleTheirs == ~g.missed

\* What gxr_backend_landed says has landed is in guest RAM, under the bytes of
\* no older copy that landed after it (say_landed, copy_texture's overlaps).
LandedIsThere == \A c \in Cells : exact[c] <= g.said => g.ram[c] = exact[c]

\* The window's picture and the one waiting for it are whole frames, the newer
\* after the older, which nothing recorded or in flight will write; and the
\* renderer's screen is the frame it was delivered for (copy_screen,
\* slot_finish, publish_screen).
ToBeWritten == {o.slot : o \in {p \in UNION {ToSet(g.ops[s]) : s \in Slots} : p.op \in {"real", "mid"}}}
Shown == {window} \cup (IF g.fresh THEN {g.middle} ELSE {})
ScreensWhole ==
    /\ \A s \in Shown : s \notin ToBeWritten /\ (g.has[s] => g.mid[s] = g.real[s])
    /\ g.fresh => g.real[g.middle] > g.real[window]
    /\ g.screen.is = g.screen.due

\* A producer that waits for a copy publishes nothing more, so where the
\* consumer's idle finds nothing to do every copy has been said to land
\* (timed_idle, wait_landed).
NoneStranded == ~IdleHasWork(g) => \A c \in Cells : exact[c] <= g.said

=============================================================================

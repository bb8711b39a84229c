----------------------------- MODULE EventTrack -----------------------------
(***************************************************************************)
(* A recorded run and the replay of its recording (runtime/si.c's recorder, *)
(* loader and replay; tick.c's turbo, savenow.c and actions.c at the safe  *)
(* point; docs/specs/event-track.md).                                      *)
(*                                                                         *)
(* The first run records: the guest thread reads port 1 (with the host     *)
(* buttons) and port 2 and passes its safe points, the UI thread asks for  *)
(* things, and the run is killed or stopped by a report on another thread. *)
(* The second run replays the file, with the same people at the same       *)
(* controls.  What the game was given is kept in lived and replayed.       *)
(*                                                                         *)
(* A line is its frame, its kind and its value; a state of a controller is *)
(* a value, "-" the neutral one and "off" no controller in port 2.         *)
(***************************************************************************)
EXTENDS Integers, Sequences, FiniteSets, SequencesExt

CONSTANT
    Plays         \* what goes on around a pair of runs: one of these, with
                  \*   pads       what port 1 can hold besides neutral
                  \*   pads2      and port 2, when it is there
                  \*   hosts      and the host buttons; "view+rs" is the turbo chord
                  \*   asks       what the menu can ask: "turbo", "savenow", an action
                  \*   schedule   SOA_ACTION: actions and their frames
                  \*   saveAt     SOA_SAVE_NOW's frame, or None
                  \*   stops      how the recorded run ends: "kill", "report"
                  \*   same       does the replayed game read as the recorded one did
                  \*   does       what the guest does: "pad", "pad2", "safe"
                  \* and the bounds
                  \*   lastFrame  the recorded run's frames
                  \*   extra      the replay's frames past those
                  \*   maxReads   reads of a controller in a frame
                  \*   maxAsks    the menu's requests, in both runs together

None == -1
Kinds == {"pad", "pad2", "host", "turbo", "action", "savenow"}
Events == {"turbo", "savenow", "action"}

VARIABLES
    play,         \* the one of Plays
    phase,        \* "live" (recording) or "replay"
    frame,        \* gx_frame_count()
    safe,         \* has this frame had its safe point
    reads,        \* this frame's reads of each port
    file,         \* the recording's lines
    last,         \* g_rec_last, g_rec_p2 and g_rec_p2_there, g_rec_host
    recDone,      \* g_rec_done
    latch,        \* pad_report's and si_read_pad's latched frame and state
    host,         \* g_host and g_host_frame
    padFrame,     \* g_pad_frame, None while not g_pad_seen
    armed,        \* g_turbo_armed
    asked,        \* g_turbo_toggle, g_pending and g_req: what is asked of the safe point
    sched,        \* g_sched, what is left of it
    saveSet,      \* g_frame_set
    ui,           \* the UI thread past its look at g_replaying, with what it asks
    asks,         \* how many requests the menu made (bound)
    closing,      \* how far si_report has come
    replaying,    \* g_replaying
    taken,        \* g_play_i and g_ev_next: the lines of each kind passed
    lived,        \* what the recorded game was given until its stop began
    replayed      \* what the replayed game is given

process == <<last, recDone, latch, host, padFrame, armed, asked, sched, saveSet>>
menu == <<ui, asks>>
vars == <<play, phase, frame, safe, reads, file, process, menu, closing, replaying, taken, lived, replayed>>

-----------------------------------------------------------------------------
(* The file as the loader takes it (pad_replay_load).                      *)

\* Each kind in its own frame order: a line that goes back is passed over.
Kept(kind) ==
    FoldLeft(LAMBDA kept, l : IF l.kind # kind \/ (kept # <<>> /\ l.frame < Last(kept).frame) THEN kept
                              ELSE Append(kept, l), <<>>, file)

Held(lines) == lines # <<>> /\ Last(lines).value # "-"

\* Port 1's lines, let go of a frame after the last.
PadLines ==
    LET kept == Kept("pad")
    IN IF Held(kept) THEN Append(kept, [frame |-> Last(kept).frame + 1, kind |-> "pad", value |-> "-"]) ELSE kept

Lines(kind) == IF kind = "pad" THEN PadLines ELSE Kept(kind)
HasLines == file # <<>>
Replaying == phase = "replay" /\ HasLines

\* How many lines of a kind are due.
Due(kind) == Cardinality({i \in DOMAIN Lines(kind) : Lines(kind)[i].frame <= frame})

\* event_at: the last line due is the one in effect.
InEffect(kind, before) == IF Due(kind) = 0 THEN before ELSE Lines(kind)[Due(kind)].value

\* event_take, until none is due.
DueLines(kind) == SubSeq(Lines(kind), taken[kind] + 1, Due(kind))

-----------------------------------------------------------------------------
(* What the guest does next.  A replay of the same polls does what the     *)
(* recorded guest did, at the same frames, and as it likes after that.     *)

Following == phase = "replay" /\ play.same /\ Len(replayed) < Len(lived)
Next1 == lived[Len(replayed) + 1]

May(op) ==
    /\ op \in play.does
    /\ Following => Next1.op = op /\ Next1.frame = frame
    /\ phase = "replay" /\ play.same => Following

Given(what) ==
    IF phase = "replay" THEN replayed' = Append(replayed, what) /\ UNCHANGED lived
    ELSE /\ UNCHANGED replayed
         /\ lived' = IF closing = "no" THEN Append(lived, what) ELSE lived

\* A line goes to the file of a recording whose totals are not written.
Written(kind, was, now) ==
    IF phase = "live" /\ ~recDone /\ was # now THEN <<[frame |-> frame, kind |-> kind, value |-> now]>> ELSE <<>>

\* g_replaying is set by whichever of the guest's calls loads the file.
Load == replaying' = (replaying \/ Replaying)

-----------------------------------------------------------------------------
(* Port 1 and the host buttons: pad_report.                                *)

\* While recording, a frame's first read is the frame's.
Latched(port, now) == IF phase = "live" /\ latch[port].frame = frame THEN latch[port].value ELSE now

Latch(port, pad) ==
    latch' = IF phase = "live" THEN [latch EXCEPT ![port] = [frame |-> frame, value |-> pad]] ELSE latch

\* pad_replay: one line a read.
Stepped_AllDue == Due("pad")
Stepped == IF taken["pad"] < Due("pad") THEN taken["pad"] + 1 ELSE taken["pad"]

PadAt(n) == IF n \in DOMAIN PadLines THEN PadLines[n].value ELSE "-"

\* host_update: once a frame; the chord asks for turbo in a run that is not a
\* replay.
HostNow(now) ==
    IF host.frame = frame THEN host.value
    ELSE IF Replaying THEN InEffect("host", "-") ELSE now
Chord(now) == ~Replaying /\ now = "view+rs" /\ host.value # "view+rs"

ReadPad(live, liveHost) ==
    LET at == IF Replaying THEN Stepped ELSE taken["pad"]
        pad == IF Replaying THEN PadAt(at) ELSE Latched("pad", live)
        buttons == HostNow(liveHost)
    IN /\ May("pad") /\ reads["pad"] < play.maxReads
       /\ reads' = [reads EXCEPT !["pad"] = @ + 1]
       /\ taken' = [taken EXCEPT !["pad"] = at, !["host"] = IF Replaying THEN Due("host") ELSE @]
       /\ Latch("pad", pad)
       /\ host' = [frame |-> frame, value |-> buttons]
       /\ asked' = IF Chord(buttons) THEN asked \cup {"turbo"} ELSE asked
       /\ file' = file \o Written("host", last["host"], buttons) \o Written("pad", last["pad"], pad)
       /\ last' = IF phase = "replay" THEN last
                  ELSE [last EXCEPT !["pad"] = IF recDone THEN @ ELSE pad, !["host"] = buttons]
       /\ padFrame' = frame
       /\ Given([op |-> "pad", frame |-> frame, pad |-> pad, host |-> buttons])
       /\ Load
       /\ UNCHANGED <<phase, frame, safe, recDone, armed, sched, saveSet, menu, closing>>

(* Port 2, which only mods read: si_read_pad.                              *)

ReadPad2(live) ==
    LET pad == IF Replaying THEN InEffect("pad2", "off") ELSE Latched("pad2", live)
    IN /\ May("pad2") /\ reads["pad2"] < play.maxReads
       /\ reads' = [reads EXCEPT !["pad2"] = @ + 1]
       /\ taken' = [taken EXCEPT !["pad2"] = IF Replaying THEN Due("pad2") ELSE @]
       /\ Latch("pad2", pad)
       /\ file' = file \o Written("pad2", last["pad2"], pad)
       /\ last' = IF phase = "replay" THEN last ELSE [last EXCEPT !["pad2"] = pad]
       /\ Given([op |-> "pad2", frame |-> frame, pad |-> pad])
       /\ Load
       /\ UNCHANGED <<phase, frame, safe, recDone, host, padFrame, armed, asked, sched, saveSet, menu, closing>>

-----------------------------------------------------------------------------
(* The safe point: turbo_evaluate, then savenow_safe_point and             *)
(* actions_safe_point in the order main.c registers them.                  *)

Event(kind, value) == [kind |-> kind, value |-> value]
Actions == play.asks \ {"turbo", "savenow"}
DueItems == SelectSeq(sched, LAMBDA item : item.frame <= frame)
SaveDue == "savenow" \in asked \/ (saveSet /\ frame >= play.saveAt)

\* What is to be done in a run that is no replay, in order.
LiveEvents ==
    (IF "turbo" \in asked THEN <<Event("turbo", IF armed THEN "off" ELSE "on")>> ELSE <<>>)
    \o (IF SaveDue THEN <<Event("savenow", "")>> ELSE <<>>)
    \o [i \in DOMAIN DueItems |-> Event("action", DueItems[i].value)]
    \o SetToSeq({Event("action", a) : a \in asked \cap Actions})

\* And in a replay: the recording's own, and nobody else's.
RecordedEvents ==
    LET Taken(kind) == [i \in DOMAIN DueLines(kind) |-> Event(kind, DueLines(kind)[i].value)]
    IN Taken("turbo") \o Taken("savenow") \o Taken("action")

EventsNow_Both == IF Replaying THEN RecordedEvents \o LiveEvents ELSE LiveEvents
EventsNow == IF Replaying THEN RecordedEvents ELSE LiveEvents

\* field_not_quiet refuses a save and a warp; each leaves the field not
\* quiet.  Encounters and turbo are never refused.
Apply(state, e) ==
    IF e.kind = "savenow" \/ e.value = "warp"
    THEN IF state.quiet THEN [quiet |-> FALSE, did |-> Append(state.did, e)] ELSE state
    ELSE [state EXCEPT !.did = Append(@, e)]

\* The field is looked at only when something asks.
Asking == \E i \in DOMAIN EventsNow : EventsNow[i].kind # "turbo"

SafePoint(quiet) ==
    LET did == FoldLeft(Apply, [quiet |-> quiet, did |-> <<>>], EventsNow).did
        flips == SelectSeq(did, LAMBDA e : e.kind = "turbo")
        on == IF flips = <<>> THEN armed ELSE Last(flips).value = "on"
    IN /\ May("safe") /\ ~safe
       /\ (Following => quiet = Next1.quiet)
       /\ safe' = TRUE
       /\ armed' = on
       /\ asked' = {}
       /\ sched' = IF Replaying THEN sched ELSE SelectSeq(sched, LAMBDA item : item.frame > frame)
       /\ saveSet' = (saveSet /\ ~Replaying /\ frame < play.saveAt)
       /\ taken' = [k \in Kinds |-> IF Replaying /\ k \in Events THEN Due(k) ELSE taken[k]]
       /\ file' = IF phase = "live" /\ ~recDone
                  THEN file \o [i \in DOMAIN did |-> [frame |-> frame, kind |-> did[i].kind, value |-> did[i].value]]
                  ELSE file
       /\ Given([op |-> "safe", frame |-> frame, quiet |-> quiet, turbo |-> on, did |-> did])
       /\ Load
       /\ UNCHANGED <<phase, frame, reads, last, recDone, latch, host, padFrame, menu, closing>>

\* A frame is presented.
EndFrame ==
    /\ frame < play.lastFrame + (IF phase = "replay" THEN play.extra ELSE 0)
    /\ (Following => Next1.frame > frame)
    /\ frame' = frame + 1
    /\ safe' = FALSE
    /\ reads' = [p \in {"pad", "pad2"} |-> 0]
    /\ UNCHANGED <<phase, file, process, menu, closing, replaying, taken, lived, replayed>>

-----------------------------------------------------------------------------
(* The menu's thread: tick_turbo_toggle, savenow_request, actions_request  *)
(* look at the replay first, then ask.                                     *)

Look(what) ==
    /\ ui = "idle" /\ asks < play.maxAsks /\ ~replaying
    /\ ui' = what
    /\ asks' = asks + 1
    /\ UNCHANGED <<phase, frame, safe, reads, file, process, closing, replaying, taken, lived, replayed>>

\* g_req is one word: a second action waits for nobody and is not taken.
Ask ==
    /\ ui # "idle"
    /\ asked' = IF ui \in Actions /\ asked \cap Actions # {} THEN asked ELSE asked \cup {ui}
    /\ ui' = "idle"
    /\ UNCHANGED <<phase, frame, safe, reads, file, last, recDone, latch, host, padFrame, armed, sched, saveSet,
                   asks, closing, replaying, taken, lived, replayed>>

-----------------------------------------------------------------------------
(* The end of the recorded run, and the replay's start.                    *)

\* si_report's lines are a frame past port 1's last read.
LetGo(kind) == <<[frame |-> padFrame + 1, kind |-> kind, value |-> "-"]>>

ReportPad ==
    /\ "report" \in play.stops /\ phase = "live" /\ closing = "no"
    /\ closing' = "pad"
    /\ IF padFrame # None /\ last["pad"] # "-"
       THEN file' = file \o LetGo("pad") /\ last' = [last EXCEPT !["pad"] = "-"]
       ELSE UNCHANGED <<file, last>>
    /\ UNCHANGED <<phase, frame, safe, reads, recDone, latch, host, padFrame, armed, asked, sched, saveSet, menu,
                   replaying, taken, lived, replayed>>

ReportEvents ==
    /\ closing = "pad"
    /\ closing' = "events"
    /\ file' = file \o (IF padFrame # None /\ last["host"] # "-" THEN LetGo("host") ELSE <<>>)
                    \o (IF padFrame # None /\ last["pad2"] \notin {"-", "off"} THEN LetGo("pad2") ELSE <<>>)
    /\ UNCHANGED <<phase, frame, safe, reads, process, menu, replaying, taken, lived, replayed>>

ReportTotals ==
    /\ closing = "events"
    /\ closing' = "totals"
    /\ recDone' = TRUE
    /\ UNCHANGED <<phase, frame, safe, reads, file, last, latch, host, padFrame, armed, asked, sched, saveSet, menu,
                   replaying, taken, lived, replayed>>

NoReads == [p \in {"pad", "pad2"} |-> 0]
Released == [k \in {"pad", "pad2", "host"} |-> IF k = "pad2" THEN "off" ELSE "-"]
NotRead == [frame |-> None, value |-> "-"]
NoLatch == [p \in {"pad", "pad2"} |-> NotRead]

Init ==
    /\ play \in Plays
    /\ phase = "live" /\ closing = "no"
    /\ frame = 0 /\ safe = FALSE /\ reads = NoReads
    /\ last = Released /\ recDone = FALSE /\ latch = NoLatch /\ host = NotRead /\ padFrame = None
    /\ armed = FALSE /\ asked = {} /\ sched = play.schedule /\ saveSet = (play.saveAt # None)
    /\ ui = "idle" /\ replaying = FALSE /\ taken = [k \in Kinds |-> 0]
    /\ file = <<>> /\ asks = 0 /\ lived = <<>> /\ replayed = <<>>

\* The process is killed, or leaves after its report, and the next is started
\* with the recording in SOA_PAD_FILE.
Exit ==
    /\ phase = "live"
    /\ closing = "totals" \/ ("kill" \in play.stops /\ closing = "no")
    /\ phase' = "replay"
    /\ frame' = 0 /\ safe' = FALSE /\ reads' = NoReads
    /\ last' = Released /\ recDone' = FALSE /\ latch' = NoLatch /\ host' = NotRead /\ padFrame' = None
    /\ armed' = FALSE /\ asked' = {} /\ sched' = play.schedule /\ saveSet' = (play.saveAt # None)
    /\ ui' = "idle" /\ replaying' = FALSE /\ taken' = [k \in Kinds |-> 0]
    /\ UNCHANGED <<file, asks, closing, lived, replayed>>

Guest ==
    \/ \E pad \in play.pads \cup {"-"}, h \in play.hosts \cup {"-"} : ReadPad(pad, h)
    \/ \E pad \in play.pads2 \cup {"off"} : ReadPad2(pad)
    \/ \E quiet \in IF Asking THEN BOOLEAN ELSE {TRUE} : SafePoint(quiet)
    \/ EndFrame
Menu == (\E what \in play.asks : Look(what)) \/ Ask
Report == ReportPad \/ ReportEvents \/ ReportTotals

Next == (Guest \/ Menu \/ Report \/ Exit) /\ UNCHANGED play
Spec == Init /\ [][Next]_vars

-----------------------------------------------------------------------------
(* Properties.                                                             *)

\* How far the recording holds port 1 and port 2: a killed one lets go of
\* port 1 a frame past its last line, a report of port 2 at the frame after
\* port 1's last read.
PadHeldTo == IF closing = "no" /\ Held(Kept("pad")) THEN Last(Kept("pad")).frame ELSE play.lastFrame
Pad2HeldTo ==
    IF closing = "no" THEN play.lastFrame
    ELSE LET read == {i \in DOMAIN lived : lived[i].op = "pad"} IN IF read = {} THEN None ELSE lived[Last(SetToSortSeq(read, <))].frame

\* A replayed game that reads as the recorded one did is given what that one
\* was given, at every read and safe point (docs/ARCHITECTURE.md on
\* eventtrack.h: a replay that is not the whole input plays another game).
ReplayIsRecording ==
    Replaying /\ play.same => \A i \in DOMAIN lived \cap DOMAIN replayed :
        LET was == lived[i]
            is == replayed[i]
        IN CASE was.op = "safe" -> is = was
             [] was.op = "pad" -> is.host = was.host /\ (was.frame <= PadHeldTo => is.pad = was.pad)
             [] was.op = "pad2" -> was.frame <= Pad2HeldTo => is.pad = was.pad

ReadsOf(port, given) == SelectSeq(given, LAMBDA g : g.op = port)

\* The lines of what a game was given: a state of a controller where it is not
\* the one before, and each event that was done.
ChangesOf(kind, given) ==
    LET value(g) == IF kind = "host" THEN g.host ELSE g.pad
        before(lines) == IF lines = <<>> THEN Released[kind] ELSE Last(lines).value
    IN FoldLeft(LAMBDA lines, g :
                    IF value(g) = before(lines) THEN lines
                    ELSE Append(lines, [frame |-> g.frame, kind |-> kind, value |-> value(g)]),
                <<>>, ReadsOf(IF kind = "host" THEN "pad" ELSE kind, given))
EventsOf(kind, given) ==
    FoldLeft(LAMBDA lines, g :
                 LET did == SelectSeq(g.did, LAMBDA e : e.kind = kind)
                 IN lines \o [i \in DOMAIN did |-> [frame |-> g.frame, kind |-> kind, value |-> did[i].value]],
             <<>>, ReadsOf("safe", given))
LinesOf(kind, given) == IF kind \in Events THEN EventsOf(kind, given) ELSE ChangesOf(kind, given)

\* Of each kind the loader keeps what the recorded game was given, in order, at
\* its frames; what comes after that is of the stop.
InFile ==
    \A kind \in Kinds :
        /\ IsPrefix(LinesOf(kind, lived), Kept(kind))
        /\ closing = "no" => Kept(kind) = LinesOf(kind, lived)

\* A replayed game, reading when it likes, is given the recorded one's states of
\* port 1 one after the other, and after a kill's last state only its release.
InOrder ==
    LET is == ChangesOf("pad", replayed)
        was == ChangesOf("pad", lived)
    IN \A i \in DOMAIN is :
          IF i \in DOMAIN was THEN is[i].value = was[i].value
          ELSE closing = "no" => i = Len(was) + 1 /\ is[i].value = "-"

\* And one that reads twice a frame, all but one of them, has what is due by
\* the second read of a frame (pad_replay: "the cursor catches up inside the
\* same frame").  A report can leave two lines for one frame, its release and what
\* the game reads after it, so this is of a recording that was killed.
CatchesUp ==
    LET Often(f) == Len(SelectSeq(ReadsOf("pad", replayed), LAMBDA r : r.frame = f)) >= 2
    IN closing = "no" /\ Often(frame) /\ Cardinality({f \in 0 .. frame - 1 : ~Often(f)}) <= 1
       => taken["pad"] = Due("pad")

\* No state of a controller, toggle or action that the recorded game was given is
\* missing from the file (pad_record, event_record, si_report on another thread);
\* and no state of port 1 from a replay that reads at other times: "a shift rather
\* than a loss" (pad_replay), and one that is made up for.
NoStateLost == InFile /\ (Replaying => InOrder /\ CatchesUp)
=============================================================================

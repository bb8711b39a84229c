# Specifications of the Skies of Arcadia port's runtime

TLA+ models of the parts of `src/runtime` whose correctness depends on an
order nobody can test by running the game: threads that share words, devices
that interrupt, files half written when the process stops, runs that have to be
played again exactly. Each model is checked with TLC on a small instance, and
for fourteen of the nineteen parts below the main results are proved with TLAPS for
every value of the constants.

Paths in this file are relative to the repository; its own `src/` directory
(decompiled game code) is not `src/runtime`, which is where almost everything
below happens. Line numbers of every definition are in `PROJECT.json`, "map".

## 1. The system

The port runs a GameCube game on a host: the game's PowerPC code is translated
to C ahead of time and linked with a C runtime that stands in for the
machine. The threads of the process are

- **the guest thread**, which runs the game's code and with it every device
  model and the parser of the graphics stream (guest threads are fibers of it);
- **the renderer's workers**, one pool that draws rows of the frame
  (`gxr.c`; three quarters of the CPUs, 16 at most);
- **the window thread**, which shows finished frames, draws the overlay over
  them, runs the menu and reads the host's input (`window.c`,
  `window_sdl.c`, Android's entry);
- with the Vulkan backend, **its compiler thread**, which makes pipelines off
  the draw path (`gxv.c`), in the place of the workers one consumer of the
  queue, and the GPU, which runs what that recorded;
- a watchdog and a profiler's sampler, which only read.

Nothing in translated code is asynchronous: interrupts come when the guest
idles or at every sixteenth backward branch (`irq_poll`), and the port's own
work (mods' callbacks, save now, actions, turbo) is done at the *safe point*
the game passes once a frame (`tick.c`).

### 1.1 The components

For each: the state it keeps, what it does, whom it touches, what is hard, and
what makes it correct. "Modelled" names the module.

**Render queue** (`gxr.c`, `gxr_cmd.h`, `gxr_tev.c`; *RenderQueue*, partly).
State: the numbered ring of draw commands, each worker's count of commands
finished, the vertex arena, the list of copies to memory not known to be over,
the images textures may sample, two pending exit fences and the frame gate. The
guest thread builds commands (draws, EFB copies, clears) and publishes them;
every worker runs every command over the rows it owns. Hard: rows of other
workers are read (filtered copies), copies write guest memory that the guest
thread and later draws read, the producer laps the ring behind a cached count,
and every reuse has to wait for exactly the right workers. Correct when a
command is not built over, rows are read final, images are complete and
current, memory is written in program order, and nobody waits for ever.

**Sleep and wake-up** of the same threads (`gxr.c`, `plat.h`; *RenderPark*).
State: counts of sleepers, what each sleeper last saw. Hard: a worker looks,
announces itself and sleeps while the owner of the word moves it and looks for
sleepers; a Linux futex compares only 32 of the count's 64 bits. Correct when
no wake-up is lost, though no wait relies on its 50 ms bound.

**Screen ring** (`gxr.c`, taken by `window.c`, `window_sdl.c`; *ScreenRing*).
State: three slots with a frame and its in-between image, one shared word
(which slot is in the middle, is it fresh), a count of shares. The last worker
to finish a frame fills the back slot and swaps it in; the presenter swaps its
own for it. Correct when the presenter shows one whole frame that nobody writes
to, and in the end the last one.

**Guest clock** (`clock.c`; users in `hle.c`, `tick.c`, `irq.c`; *Clock*).
State: guest time, the last read, speed, the pause as asked and as seen. Reads
add speed times host time, except gaps and pauses; any thread asks for a pause
with a compare-and-swap. Hard: the pause is noticed only at a read, and the
guest thread waits at its safe points while it is asked for. Correct when guest
time is monotonic, never counts more than passed, and each reason is held for
as its last call asked.

**In-between images' pacing** (`interp_budget.h`, `interp_rate.h`, `gxr.c`,
`window.c`; *InterpBudget*, *InterpPacing*). State: recent frames' lateness,
how many images are taken away, the come-back count and its doublings, the
phase of the accumulator that spreads images over refreshes. Hard: the
display's rate and turbo change at any time between the producer's steps.
Correct when images fall on the refreshes, a cap holds, failed tries make the
next come later, and a machine fast enough gets every image back.

**Frame pairs** (`gxr.c`, replayed by `gx.c`; *FramePairs*, partly). State: the
draws of this frame and the last as records, chained by key in a table with room
for so many. A draw of an in-between image is moved from a draw of the frame
before, which it takes out of its chain. Hard: chains are cut anywhere, keys
share stretches of the table, frames go over their room or have no in-between
image. Correct when each draw is paired by the same rule as the tool's
(`tools/fifopair.py`).

**Interrupt delivery and timed devices** (`irq.c`, `dsp.c`, `aram.c`, `dvd.c`;
*DeviceInterrupts*, partly). State: each engine's busy flag and due time, the
status bits, the audio DMA's block clock, the decrementer, the retrace, what a
delivery pass is looking at. Hard: handlers are guest code and start the next
command, enable interrupts, branch back and idle within themselves; completion
is late by design. Correct when every command is answered by exactly one
handler call, the sound keeps its pace, handlers run whole, and what was asked
for arrives.

**Overlay frames** (`overlay.c`, its use in `mod.c`; *OverlayFrames*). A triple
buffer of draws from mods' callbacks on the guest thread to the window thread,
with room per frame and per mod.

**Save extension and save now** (`savext.c`, `savenow.c`, `mod.c`;
*SaveExtension*). State: the chunks kept from the last load, the snapshot's
gap and held tail, the request, the last save point. Mods' data goes into a gap
in the game's save block and into the file's tail; a save made off a save point
lands where it was made. Hard: mods come and go between runs, menus are
cancelled, the process stops between the block's write and the tail's. Correct
when no chunk is lost, or taken from another save.

**Recording and replay** (`si.c`, `tick.c`, `actions.c`, `savenow.c`;
*EventTrack*, partly). State: the last states written, latches, the loaded
lines and the cursors into them, what is asked of the safe point. Hard: a
recording is stopped by a kill or by a report on another thread; the menu asks
at any time; a replayed game may read at other times. Correct when the replayed
game is given what the recorded one was.

**Vulkan backend** (`gxv.c`; *GpuSlots*, *PipeCompiler*, partly). State: two
slots, each a command buffer with its half of the texel pool, the copies it has
still to land in guest memory and the screens it has still to hand over; the
table of pipelines, the ring of jobs for the compiler thread. Hard: the next
frame is recorded while the GPU runs the last, over texels, guest memory and
screen slots that one frame hands the other; a job's place is free before its
pipeline is made. Correct when a draw samples what it was recorded with, what is
said to have landed has, the window's pictures are whole and in order, an idle
consumer strands no copy, and a draw gets its own state's pipeline.

**Mods' callbacks, calls and patches** (`mod.c`; *ModCallbacks*, *ModPatches*,
partly). State: whose callback runs, whether a safe point or the renderer is
being served, the registers; for each patch what it last wrote. A callback at
the safe point may call the game, whose code raises other callbacks. Patches
write, or multiply, words of tables the game reloads when it likes. Correct when
everything is counted to its mod, the game's registers are untouched, and a
factor is applied once.

**Mods' order, refusals and claims** (`mod.c`; *ModLoad*). State: the folders,
their order, what each has put in place, the flag numbers, `mods.lock`. A mod
is loaded whole or not at all, in an order that serves their `overrides`, and a
number it claims is its own in every later start, wherever one was killed.

**The mods' file table** (`vfst.c`, `main.c`, `disc.c`; *FileTable*, partly).
State: the disc's table as read, the files placed past the image's end, who
placed what. Lines are built in two phases, a fault refuses a mod whole and
starts again. Correct when every path reads what the standing mods made of it.

**Memory card** (`exi.c`; *MemoryCard*, partly). State: the array and its file,
the device's command, its interrupt line and the channel's. Framed by the chip
select; written through at the end of a write. Correct when what the game was
told is written survives a kill, and every write raises the line.

**A phone's library and disc** (`android.c`, `import.c`, `game.c`;
*GameLibrary*, *DiscImport*, partly). State: the library with its `.old` and
`.tmp`, `disc.txt` with the copies and permissions it relies on, the pick the
system's picker will bring, perhaps to another process. Correct when no pick
and no kill costs the player the library or the disc in use.

**The game's ARAM requests** (`src/src/sdk/ar`, `src/src/soa/aramcache_fetch.c`;
*AramQueue*, partly). State: two queues, the pending request of each, the chunk,
the engine. Correct when each request is moved whole, once, whatever the package
cache does to the chunk meanwhile, and none is forgotten.

Not modelled, and why, in section 9: DSP mailboxes and the mixer (`dsp.c`,
`ax.c`), the GX front end (`gx.c`), the renderer's arithmetic (`gxr_tev.c`,
`picture.c`), presenters and windows, menu and settings, guest threads
(`threads.c`), start-up, sound output, the CPU's arithmetic, decompiled library
functions, mods and examples, and the Python tooling.

### 1.2 How they interact

- Guest thread → workers: `g_published` and the ring's slots. Workers → guest
  thread: `g_ran[w]` (drain, `wait_ran`, `claim_slot`). Worker → worker:
  fences, which are again `g_ran[w]`. *RenderQueue* has all of these as waits;
  *RenderPark* refines the waits into spins, sleeps and wake-ups. Both implement
  *CommandRing*.
- Workers → window thread: the screen ring. That a worker starts a screen copy
  only after all have finished the last, which *ScreenRing* relies on
  (`MayStart`), is the entry fence *RenderQueue* has on screen copies.
- Window thread → guest thread: a pause (*Clock*), requests taken at the safe
  point (*EventTrack*, *SaveExtension*), the display's rate (*InterpPacing*).
- Guest thread → window thread: the overlay's frames (*OverlayFrames*). It and
  the screen ring implement *FrameBox*.
- Guest → devices and back: registers and handlers (*DeviceInterrupts*); while
  a pause is asked for, its idle loop waits (*Clock*). The ARAM engine and its
  interrupt are there too; *AramQueue* is the game's driver above them, and
  takes from there that a transfer's completion is raised once.
- With the Vulkan backend the queue has one consumer. *RenderQueue*'s drains and
  fences hold with one worker; the copies it lands late, which its
  drains then have to ask the backend for, are *GpuSlots*'.
- The loader scans folders and refuses mods (*ModLoad*) around the build of the
  file table (*FileTable*); what the mods registered is then dispatched
  (*ModCallbacks*), patched (*ModPatches*), drawn (*OverlayFrames*) and saved
  (*SaveExtension*).
- An Android launch has a library and a disc before any of the rest runs
  (*GameLibrary*, *DiscImport*).

## 2. What can go wrong

`PROJECT.json`, "hazards", lists the places where a mistake would hardly show
in a test, with the properties that would catch one; alike ones share a row.
The following are known too and covered by no module:

- `irq.c:352` PE's pending words are read once a pass; `irq.c:397` a retrace's
  lateness adds up by design (delivered once, not caught up); `irq.c:286` a
  delivery abandoned by a long jump; `irq.c:422` EXI completions take up to four
  rounds of a pass.
- `exi.c:180` a flush whose open fails forgets what was dirty; `card_deselected`
  after a command that was never framed.
- `dsp.c:73` mail beyond the mailbox; `aram.c:485` the order of a DSP reset
  and its boot; `audio_out.c:97` the audio ring drops the newest block.
- `gxr.c:4064` tokens without
  `SOA_GXR_TOKENWAIT` (acknowledged in the code).
- `import.c:410` a disk filling up between two looks at its room; `disc.c:1080` hashing while serving;
  `settings.c:485` settings renamed over.
- `android.c:128` two threads ending the run; `android.c` a copy placed over the one
  `disc.txt` names, before that is rewritten; `threads.c:141` the limit on guest
  threads; a handler switched out of by the scheduler and resumed would leave
  `g_in_handler` at -1 (the game's does not).
- `savenow.c:131` the last save point outlives a game; `savext.c:258` a second
  image of one snapshot; `savext.c:213` the gap's length.
- `si.c:1573` the order of port 2's release; `si.c:918` an empty recording.
- `mod.c`: a `mods.lock` whose writing fails keeps a start's numbers for that
  start alone; the safe point's scene is read before callbacks that may call the
  game; one id in two folders is decided by their names.

## 3. Plan

Written in this order, the most important behaviour first:

| | module | of | abstract specification | proved |
|-|-|-|-|-|
| 1 | RenderQueue, RenderQueueInv | commands, fences, drains | CommandRing | yes |
| 2 | RenderPark | sleeping and waking | CommandRing | yes |
| 3 | ScreenRing | frames to the presenter | FrameBox | yes |
| 4 | Clock | guest time, pauses | – | yes |
| 5 | InterpBudget, InterpPacing, FramePairs | in-between images | – | InterpPacing |
| 6 | DeviceInterrupts | delivery, timed devices | – | yes |
| 7 | OverlayFrames | draws to the window | FrameBox | yes |
| 8 | SaveExtension | saves with mods' chunks | – | yes |
| 9 | EventTrack | recording and replay | – | no |
| 10 | ModCallbacks, ModPatches | mods at work | – | ModCallbacks |
| 11 | ModLoad, ModFolders | mods loaded, their claims | – | yes, but the order |
| 12 | MemoryCard | slot A | – | yes |
| 13 | GameLibrary, DiscImport | what a phone's player picks | – | yes |
| 14 | GpuSlots, PipeCompiler | the Vulkan backend | – | yes |
| 15 | AramQueue | the game's ARAM requests | – | yes |
| 16 | FileTable | the mods' files on the disc | – | no |

Left, in order:

1. Proofs: `EachPathItsFile` of FileTable, `FactorsOnce` of ModPatches, EventTrack.
2. PE's, EXI's and the serial interface's places in a delivery pass, and the DSP's
   mailboxes, in DeviceInterrupts.
3. Settings and menu: `soa.ini` rewritten while it is edited; the audio ring.
4. Composition: GpuSlots under RenderQueue's drains; MemoryCard in a delivery
   pass; AramQueue over the engine of DeviceInterrupts.

## 4. The modules

A handler is one action: its drains, lookups, list and state updates together.
Where the code waits, the step that follows the wait has the wait's condition
as its guard. A comment over each definition names the function it is of.

### RenderQueue

| state | in `gxr.c` |
|-|-|
| `published`, `ran`, `queue`, `presented` | `g_published`, `g_ran[]`, `g_queue[]`, `g_frames_presented` |
| `floor`, `fenceAfter`, `fenceNear`, `gate` | `g_ran_floor`, `g_fence_after`, `g_fence_after_near`, `g_frame_gate` |
| `arena`, `pending`, `image`, `lastCopy`, `mid` | `g_arena_used`, `g_pending[]`, `TexEntry.copy_cmd`, `g_last_copy`, `interp_on()` |
| `pc`, `at` | where a worker is; the worker `fence_wait` is looking at |
| `todo` | the commands the handler under way has still to publish |

`Draw`, `Copy` are `gxr_draw_inner` and `enqueue_copy` up to their commands;
`Publish` is `claim_slot` and `publish` for the next one; `Read`, `HookWrite`,
`Token`, `Drain` are the producer's other waits; `Take`, `FencePass`, `Finish`
are a worker's loop, `fence_wait` and `draw_command`/`run_copy`.
`GuestWrite` is the game writing its own memory.

Abstracted: pixels, but not who reads and writes whose rows; vertices (a draw
takes one arena block, two with its in-between copy); memory (a set of cells);
sleeping (RenderPark). Left out: the Vulkan backend's late landings, the older
drain-everywhere setting `SOA_GXR_DRAIN`, replayed pairs, and drawing without
workers. The graveyard's, a screenshot's and a hash's drains are `Drain` before
the handler. `lastWriter`, `screens` and `cpuOwns` are not in the code: they
say what memory would hold in program order, what each worker has copied, and
which cells the game has been told are its own again.

*Assumed of the game*: it writes over a copy's destination only after a
DrawDone or a token told it the copies are over (`cpuOwns`). Without
`SOA_GXR_TOKENWAIT` a token is answered as it is parsed; the code says that a
game which trusts it races, and the model lets a token without the setting hand
memory back only when the copies are over. `TokenWaits` with both values
mixes the settings token by token, more than any run of the program does.

*CommandRing* is the abstract queue: commands are numbered, every worker runs
every one in order, the producer is at most a ring ahead.

### RenderPark

The same threads with each shared access a step of its own. A worker spins,
announces itself (`announce`), looks at the word again (`look`), sleeps if it
is unmoved (`sleep`, `asleep`) and takes itself back (`leave`); an owner raises
its word (`Publish`, `Finish`), looks at the count of sleepers (`Check`) and
wakes them all (`Wake`). All are sequentially consistent in the code, so their
order in the program is their order here. `WaitReturns` is a wait that returns
early or after its 50 ms, which nothing is to rely on: no fairness is assumed
of it. `LowMod` is how much of a count a Linux futex compares.

### ScreenRing, FrameBox

`copy[w]` is the screen copy worker `w` is at or has next: a frame's own or, in
`Mids`, its in-between one after it. `Start`, `Rows`, `CountCopy` are a worker's share
of one; `FillReal`, `FillMid`, `FillLoad`, `FillCas`, `FillPublish` are `ring_fill` in
the hands of the worker whose count is a multiple of the workers'; `TakeLoad` and
`TakeCas` are the presenter's take. `CountMod` is the width of `g_ring_done`. Pictures
are numbers of frames, in every worker's rows. *FrameBox* is the abstract hand-over:
one thread offers, the other shows what was offered last.

### Clock

`Read` and `SetSpeed` are `clock_advance_at` and its six outcomes (first read,
not moved on, gap, counted, the read that sees a pause begin, a read within or
at the end of one); `AskLoad`, `AskSwap` are `clock_pause_for`'s loop on
another thread; `Hold`, `Release` are the waits at the safe points; `HostRuns`,
`HostBack` are time. `worth` (guest time as it passes) and `satOut` (what of
it passed while the guest thread was held) are not in the code. The
epoch and the gap counter, which are only reported, are left out.
`plat_mono` never goes back; `HostBack` is the case the code guards against
anyway. `SetSpeed` is used by the self tests only.

### InterpBudget, InterpPacing

InterpBudget is `interp_budget.h` with constants for its numbers; InterpPacing
is the producer that reads the display's rate twice a frame and the accumulator
of `interp_rate.h`. A frame's time is one of three classes (on time, late,
late even without images). `full`, `fails`, `moved`, `asked` and the counts of
images and refreshes `made`, `since` are history. The code's 31 frames, 30
come-back steps, 5 doublings and 300 frames are scaled to 3, 1, 2 and 2: each
rule compares a count with its bound, and every bound is reached and passed.

### FramePairs

| state | in `gxr.c` |
|-|-|
| `pair[f].rec`, `.slot`, `.pos`, `.npos` | `rec[]` and `nrec`, `slot[]`, `pos[]`, `npos` of `g_pair[f]` |
| `cur`, `flags`, `ndraw` | `g_pair_cur`, `g_pair_flags`, `g_pair_ndraw` |
| `mid` | `interp_on()` through this frame |
| `pass` | live, or which pass of `gx_replay_pair` is under way |

`Draw` is what `gxr_draw_inner` does with the pair mode on: `pair_claim` of its
own record and `pair_match` in the frame before, which unlinks what it takes.
`ScreenCopy` is `pair_rotate`, `NextPass` the replay's change of mode, after
which the frame before is still there. A draw's place stands for its vertices
and for its centre; a kind stands for a key, and no two have the same hash.
`before`, `taken` and `now` are history: what the rule is stated over. Left out:
`SOA_INTERP_JUMP`'s limit on a move, the counts the cut detector reads, what goes
into a key.

### DeviceInterrupts

`Tick` is the timebase; the guest's actions start and acknowledge commands,
write masks and status, set the decrementer, install handlers; `IdleHook` and
`BackwardBranch` start a pass; `LookAtDec`, `Poll`, `LookAtLevel`, `LookAtVi`
are `deliver_pending` source by source; `HandlerReturns` ends a handler, which
is guest code and does all of the above within itself.

*Assumed of the guest's drivers* (they are not in the runtime): a command is
started when the one before it was acknowledged; a handler acknowledges its own
source once, before it returns; the audio DMA is started with its interrupt
unmasked and its handler installed, and the same length is written while it
runs. Left out: PE's finish and token, DSP mail, EXI, the serial interface, the
AI sample counter, the reschedule after `irq_poll`, the census.
The disc drive is the same engine as the ARAM's with a register of its own.

### OverlayFrames

`Add` is a draw from a mod's callback with the room left for the frame and the
mod; `Publish` ends a frame; `TakeLook`, `TakeSwap` are the window thread's.

### SaveExtension

`Request`, `SafePoint`, `Snapshot`, `Cancel`, `Image` follow save now and the
menu into the block; `WriteBlock` and `WriteTail` are the game writing the
image, the process may stop between them (`Restart`, at any step, with any
mods); `Continue` and `NewGame` load. Chunks are sized by `Bytes`. Left out:
the claims' chunk, damaged gaps, the gap's dirty bit, `SOA_SAVE_NOW`
(it is in EventTrack).

### EventTrack

`ReadPad`, `ReadPad2` are `si_read_pad` with `pad_report`, `pad_replay` and the
host buttons; `SafePoint` is the safe point's turbo, save now and actions in the
order `main.c` registers them; `Look`, `Ask` are the menu's thread between its
look at `g_replaying` and its request; `ReportPad`, `ReportEvents`,
`ReportTotals` are `si_report` on another thread; `Exit` ends the recorded run,
by a kill or after its report, and starts the replay. A pad's read is atomic
with its look at `g_rec_done`; scripts stand for the live pads. Left out: drift
reports, the configuration line, `SOA_PAD_STRICT`, a replay that records, the
motor.

`lived` and `replayed` are histories of what the guest was given. `NoStateLost`
relates them and the file in three parts: `InFile`, the loader's lines of each kind
begin with the changes and events of `lived`, and after a kill are no more; `InOrder`,
the states of port 1 in `replayed` are those of `lived` one after the other, whenever it
reads; `CatchesUp`, a game that reads twice a frame, all but one of them, has by the
second read of a frame all that is due. The host buttons and port 2 have no such order
in a replay: it is given the state in effect, so one that no read falls on is passed
over. What their reads, the toggles and the actions are in a replay that reads as the
recorded run did is `ReplayIsRecording`.

### GpuSlots

The consumer's commands, each one step with the waits for the GPU inside it:
`Draw` and `Clear` with the textures they upload, `CopyTexture` to memory,
`CopyReal` and `CopyMid` to the screen, `Idle`, `ResetEfb`, `Settle`; `Gpu` is
the GPU at work by itself, `Take` the presenter. `g` is one record of what both
hold: the slots, field by field (what each was recorded with, what it has to land
and to publish, its half of the texel pool), guest memory, the screens. The GPU runs
submissions whole and in order, which the barrier of `begin_cb` makes them do: so
what a place of the pool holds at an operation is what the last one before it put
there (`Held`), a screen's picture the last drawn into it (`Drawn`), a cell's bytes
those of the last copy over it (`Landed`).
`exact` is guest memory as if every copy had landed at once; the properties
compare with it. Left out: bytes between a copy's rows that the CPU writes while
the copy is recorded and not landed, texture decoding, sizes.

### PipeCompiler

`Ask` to `Interpret` are `pipeline()`, the job's two fields and the publishing
word each a step; `Look` to `Ready` the compiler thread; `Stop`, `Destroy` the
shutdown. The table is a function of what a slot is for: no slot is ever freed,
so where probing finds one does not matter. Left out: the stall and the wait
that only tests ask for, and the pipeline cache's file.

### ModCallbacks, ModPatches

ModCallbacks keeps the host's stack: each dispatcher with what it saved, each
call of the game, the handler. `GameStep` is the game moving its registers, scene
and state; `Enter`, `CallBack`, `CallBackReturns`, `Leave` a dispatcher of any
kind, `SafeDone`, `SceneDone`, `MapDone` the safe point's three rounds;
`CallGuest`, `GuestReturns`, `DrawOne` what a callback may do. What callbacks are
for (battles' records, textures, text) is left out: who runs them is not.

ModPatches' `FrameEnd` is `mod_frame`'s pass over all patches in order; a patch
finds its words through a pointer that maps move. `LoadBegins`, `LoadEnds`,
`Elsewhere` are the game's loads, which put a table's words back or leave them.
`disc` and `settled` are history. A word with two factors is left out (section 8).

### ModLoad, ModFolders, FileTable

ModLoad is a start: `Start` puts the folders in order (`plan_order`), refuses
opposed ones and scans files; `LockRead` reads the numbers; `PassOver` and
`LoadOne` are `load_one` with each of its refusals, `LoadDone` what the whole
set may still refuse; `WriteTmp`, `RemoveLock`, `RenameLock` write `mods.lock`;
`Stop` is an end or a kill anywhere, `Damage` a file the player spoilt. A
folder's record (ModFolders) says which stage would refuse it. That the disc
refuses a mod's files is one bit there; FileTable is that stage by itself:
`BuildLine` is `build_pass` for one line, a refusal restarts it, `Serialise` and
`Install` rebuild, check and hand over the table, and the drive's reads
(`Served`) are what `EachPathItsFile` follows from path to byte. Paths are
sequences of names and a name stands for all its spellings. `disc_overlay_install`'s
index and names are for reports and left out.

### MemoryCard

The card's library, external, writes the channel's registers (`LibraryStep`): an
erase or a program is a script of transactions ending in a deselect, which
frames the write, flushes the file and raises the line, if it was down.
`Killed` may tear a page of the file. `told` is what the game has been told is
written. Left out: reads and status bytes beyond the ID, the other channels, the
real-time clock.

### GameLibrary, DiscImport

Both are the launch's loop on its thread, one call that changes the disk a step
(`KeepOld` and `Put` are the two renames of `import_place`; `Copied`, `Drop`,
`TidyCopies` and the like what follows), with the picker answering at any time
and `Kill` between any two. A kill while the disc's permission is already
released and `disc.txt` not yet rewritten is left out of the run
(`KilledAtRelease`, section 8), as is a launch that picks over a library it has
not tried (`Untried`, a finding's run). Left out: logs, check runs, what the
dialogs say.

### AramQueue

`Posts` is `ARQPostRequest` from a thread or a callback, with interrupts off;
`Completes` the engine, `Interrupt` and `CallbackReturns` the handler around the
request's callback, which may post; `Fetch...` is `aramCacheFetch`, a call at a
time, since interrupts come between them. Lengths are in units of 32 bytes and
wrap at `LenMod`, for the code subtracts a chunk from a length it has just found
shorter. *Assumed of the game*: a block is posted again only from its callback
on. Left out: ARAM's allocator, direct `ARStartDMA` use.

### MC modules

MCTime, MCDisplay, MCGuest and MCFiles each instantiate components that share no
state and let a behaviour run one of them, chosen by `which` at its start; the
others stand still, so the states add up rather than multiply. MCRenderQueue,
MCModLoad, MCModCallbacks, MCSaveExtension and MCGameLibrary give constants that
a configuration cannot write. ClockConstants, RenderParkConstants, BackendConstants and
AramConstants hold what two instances share, and the assumptions of modules that
are only instantiated, which the composed runs evaluate by extending them.
The constants of what is proved are MCDisplay's, MCGuest's and MCFiles' own, given in
the configuration, so that the theorems are of the modules the runs check:
`RingWorkers` and the like are ScreenRing's, `Registered`, `Scenes`, `MaxDepth`
ModCallbacks', `NPages`, `Sector` MemoryCard's, `Libs`, `Files` the phone's.

## 5. The runs

| run | of | what it shows | bounds |
|-|-|-|-|
| `queue` | RenderQueue | rows read across workers are final (`RowsFinal`), vertex storage is never shared (`ArenaDisjoint`), frames counted are whole (`WholeFrames`), images are complete and current (`ImagesComplete`, `ImagesCurrent`), what the producer reads no copy is still to write (`ReadsSettled`), the pool is the abstract ring (`ImplementsRing`), every command finishes (`EveryCommandFinishes`) | 2 workers, 2 slots, 3 blocks, 2 textures of 2 cells, 4 shapes of copies, 4 commands, the in-between image, hooks and tokens |
| `display` | InterpPacing | images are on the refreshes (`OnGrid`), a game on time for good gets every image back (`FullAgain`) | displays of 0 (turbo), 85 and 144 Hz, windows as above |
| | RenderPark | every command published is finished, the last with nobody left publishing and no timeout to help (`AllFinish`) | 2 workers, ring of 2, futex compares modulo 4, 4 commands |
| | ScreenRing | the ring is a box with the newest frame, and what is taken from it is one whole frame in every worker's rows (`ImplementsBox`), the last one stays (`LastIsShown`) | 3 workers, 4 frames, 2 with an in-between image |
| | FramePairs | a draw is moved from the draw the tool's rule pairs it with (`AsFifopair`) | 4 draws of 2 keys on one hash place, 3 records and 3 positions a frame, a look of 2, 4 draws a frame |
| `time` | DeviceInterrupts | every command and block is answered by one handler call (`Answered`), what was asked for arrives (`EverythingArrives`) | decrementer, AI, ARAM, retrace; the AI's handler late; time to 2 |
| | Clock | once no reason asks for a pause for good, clock and guest run on (`HoldsEnd`) | 2 threads, 1 speed, host time to 1 |
| `guest` | Clock | time not excluded is counted, at the speed it passed at, once (`Accounted`) | 2 threads, 2 speeds, host time to 2 with steps back |
| | OverlayFrames | the triple buffer is a box with the newest frame (`ImplementsBox`) | 2 mods, 3 draws, 2 texts |
| | ModCallbacks | whose callback runs is who is counted, and nothing of it is left to the game, registers included (`Attribution`) | 2 mods, every kind of callback, stack of 3 |
| | ModPatches | each factor is on its word once, whatever loads did (`FactorsOnce`) | 4 patches, 4 maps |
| | GpuSlots | draws sample what they were recorded with (`DrawsSampleTheirs`), what is said to have landed has (`LandedIsThere`), screens are whole and in order (`ScreensWhole`), an idle consumer strands no copy (`NoneStranded`) | 2 slots, room for 2 textures and 2 landings, 5 commands |
| | AramQueue | a callback comes when its request was moved whole, one transfer at a time, none forgotten (`RequestsServed`) | 1 high, 3 low requests of 2 to 4 units, chunk of 2 narrowed to 1, 7 posts |
| | PipeCompiler | a draw gets its own shape's pipeline or its state's interpreter, a filled slot is made, failed or on its way once (`DrawnWithItsOwn`) | 2 states, 2 shapes, 5 slots, ring of 2, 4 draws |
| | FileTable | each path reads what the standing mods made of it, a refused mod is nowhere (`EachPathItsFile`) | 7 entries, 13 lines, 2 mods with up to 2 and 1 of them |
| `files` | SaveExtension | every chunk is carried, none taken from another save (`ChunksCarried`), a Continue lands where its save was made (`Landing`) | 2 mods, 2 maps, 2 saves |
| | EventTrack | a replay that reads as the recorded run did is given what that one was (`ReplayIsRecording`); the file has each state of a controller, toggle and action the recorded game was given, in order, at its frame, and a replay that reads at other times is given each of port 1's states in turn and catches up (`NoStateLost`) | three pairs of runs, 2 or 3 frames |
| | ModLoad | where two mods write one place the one that overrides is last (`LastWord`), a refused mod leaves nothing (`RefusedWhole`), a number is one claim's for good (`ClaimsStand`) | 2 to 5 folders, 3 numbers, 2 starts |
| | MemoryCard | what the game was told is written stays (`ToldStays`), every framed write raises the line (`LineRises`) | 4 pages, sectors of 2, 3 writes, 2 starts |
| | GameLibrary | no pick and no kill costs the library in use (`LibraryStays`) | 4 files, 3 first installs |
| | DiscImport | `disc.txt` names a disc that can be read and a run keeps its own (`DiscStays`), a pick is forgotten when decided, never with another (`PickStays`) | 3 files, two of one copy name |
| `clock_hold`, `save_grown`, `mods_order`, `mods_claims`, `mod_calls`, `library`, `hook_forgets` | | findings, section 8 | |

**Why the bounds are enough.** *Queue*: a ring shorter than the commands is
lapped, and the cached floor goes stale; two blocks for a draw with an
in-between copy and three blocks in all fill the arena in two draws; two
overlapping textures and the copies over them make newest, older and partial
overlaps. The textures of `queue` lie within each other, so a hook that reaches a
copy reaches all older ones over the same cells; those of `hook_forgets` lie
apart, and `ImagesCurrent` does not hold there (section 8). Two workers are each other's neighbours on both sides; a near fence
leaves workers out from four on, and for those `RowsFinal` rests on its proof.
*RenderPark*: the ring wraps twice and the count's low bits once. *ScreenRing*:
three slots and four frames let a frame be replaced before it is taken and a
slot come round; `CountMod` of 32 keeps the count from wrapping (section 8).
*Pairs*: three records of one key are a chain cut at its head, in its middle, at
its tail and beyond the look; the second key probes past the first and, after
it, past a slot whose chain has run out; four draws go over either room.
*Clock*: a gap of one tick within two ticks has spans shorter, as long and
longer. *Devices*: two ticks are two blocks and two commands, one of them late.
*Save*: sizes are chosen so that one chunk fits the gap, two do not, and the tail
takes the rest. *Track*: the bounds are in the record of each of the three
scenarios: both ports with host buttons and both ways to stop; the menu, the
chord and the two schedules; a replay that polls otherwise, after either stop. *Gpu*: five commands
fill both slots, a pool half and the list of landings, and come back to the first
slot. *Calls*: three deep is a dispatcher under a called function under the safe
point. *Patches*: a factor over two words, a kept word among them, a table past
RAM and one at the code. *Aram*: requests of one, two and more chunks, each
narrowed or not, with a high one between. *Pipes*: the ring fills and comes
round, and the table is one slot short. *Table*: every verb, accepted and
refused for each of its reasons, in either mod, a path two mods share, and files
past each of the three limits. *Folders*: kinds of conflict by pairs, four
mods for circles, and five that each override all the later ones, which take the last
of plan_order's 26 passes; `LastWord` speaks of five folders at most, since six may
need more passes than there are (section 8). *Card*: an erase and programs of one sector and of another.
*Library, disc*: every kind of file picked over every other.

CHECK_DEADLOCK is off where the modelled system ends: `display`, when
ScreenRing's bounded frames are shown, `files`, when both runs of EventTrack are
over or the last start has been stopped, and the runs of findings on those
modules. In `guest` what ends stands still under `Over`, so that a request or a
job left hanging is a deadlock there.

## 6. Fairness

Each component's own, and in the composed runs guarded by `which`:

- RenderQueue: weak fairness for each worker's steps (the host runs every
  thread) and for publishing what was built or ending a read. None for what the
  game does.
- RenderPark: weak fairness for each worker's steps, and for the producer's look
  at the sleepers and its wake-up once it has published. None for publishing,
  and none for `WaitReturns`.
- ScreenRing: weak for each worker and for the presenter, which looks at the
  ring every 8 ms.
- Clock: weak for the guest thread's reads and for its release from a hold, and
  for a call under way; none for
  asking or for taking a request back, and `HoldsEnd` speaks of runs in which the
  requests end for good.
- InterpPacing: the game keeps making frames, and the window thread finishes
  both of its stores.
- DeviceInterrupts: weak for time, the pass, acknowledging and returning; strong
  for idling, because the main thread waits for a retrace in every frame, so that
  idling is enabled again and again without staying so.

The rest is checked for safety. `NoneStranded` and `RequestsServed` say without
fairness what a stranded copy or a forgotten request would be: nothing under way
and something still waiting.

## 7. What is proved

Eight modules hold theorems; `PROJECT.json`, "theorems", lists the results. Those of
components that run side by side in MCGuest, MCDisplay or MCFiles are proved of the
component and carried to the whole's specification (`GuestSpec`, ...), whose steps are
a component's or leave it alone. The assumptions are those on the constants
(`QueueAssumption`, `ParkAssumption`, `ClockAssumption`, `AramAssumption`,
`CardAssumption`, ...), which say no more than that counts are numbers, rings have room
and names differ; two more are named where they are used.

**RenderQueue_proof** (invariant in RenderQueueInv). `RowsFinal` is not
inductive: that a worker running a copy has every owner of its rows past the
copy's predecessors follows only from what the worker saw at the copy's fence, and
that none has begun the next from the fence of the command *after*. `IInv` says
so: `Numbered` (no worker more than a ring behind, the floor below all),
`Slots` (each recent command is in its slot), `Asked` and `Fences` (what a
handler asks of `claim_slot`, and what that makes of it), `Exits` (the next
command carries the exit fence, or will), `Passed` (a worker past a fence found
the others past it, and counts only rise). From it follow `TypeOK` (the arena
is not overrun), `NoCommandLost`, `RowsFinal`, `ImagesComplete` and
`ImplementsRing`, for any number of workers, ring size and shapes of copies.

A second invariant stands on the first, `MInv`, of what only the producer knows
about commands some worker has still to finish: their vertex blocks are given
out, to them alone (`Blocks`); their copies to memory are listed (`Listed`); none
writes what is being read (`Settled`); and each copy is fenced past those over its
memory (`Overlaps`). Whoever has waited for the newest of them has waited for all
(`WaitSettles`), which is what lets a hook forget the copies it reaches. From it
follow `ArenaDisjoint`, `ReadsSettled` and `CopiesInOrder`.

Two more stand on these. `FInv`: every screen copy carries its entry fence
(`ScreenFences`), so no worker is two screen copies ahead of another (`Level`, the
theorem `FramesLevel`), and what `g_frames_presented` has counted is `N` for each whole
frame and one for each worker past it (`Even`); the frames counted are whole
(`WholeFrames`). `CInv`: the copies in the list are the programmed ones and own their
memory (`Owned`), and an image whose copy is the newest of the list over its memory is
what that memory holds (`NewestIsLast`); so a draw samples what the texture's memory
would hold (`ImagesCurrent`). That one needs `HooksTellAll`: no copy lies over two
textures that lie apart. Without it the property is false; the attempt to prove it led
to the finding `hook_forgets`, whose run refutes it.

**RenderPark_proof** with **RingNumbers** (facts on remainders).
`ParkInv`: numbers; what a sleeper has seen is not ahead of the word (`Seen`);
`Fenced`; sleepers are counted from announcing to leaving (`SleepersCounted`);
and a worker asleep on a moved word has an owner on its way to wake it
(`NoLostWake`). `NoFalseSleep` needs that a count moves less than `LowMod`
while a worker sleeps, which the ring's size gives: that is why
`LowMod >= 2 * QueueCap` is assumed. `FenceHolds` and `ImplementsRing` follow.

**DeviceInterrupts_proof**: `Answered`, `Pace` and `HandlersRunWhole` for any
sources, lengths and lateness. Strengthened by: a busy engine is not raised
(`BusyNotRaised`), a status bit stands until it is answered (`BitStands`), the sound's
handler is ready while it plays (`SoundReady`), and its bit is up only where the pass is about
to call that handler or the handler is about to acknowledge it (`SoundAnswered`).

**Display_proof**, of MCDisplay's parts.

- The screen ring, for any number of workers, frames and in-between images. No
  worker begins a copy of a frame before all have ended the last (`Fence`), so the
  counts of one frame's end follow those of the one before and one in as many as
  there are workers is the last (`Counts`); whoever makes it is alone in the ring
  (`Alone`) while the rows hold its frame (`RowsHold`); the three slots are the
  filler's, the middle one and the presenter's (`Roles`, the theorem
  `SlotsTheirs`). So each step of it is a step of *FrameBox* or a stutter
  (`RingImplementsBox`, `ImplementsBoxHolds`). `RingAssumption` keeps the count below
  where it turns negative: past that the code's remainder goes wrong (section 8).
- The pacing: `OnGrid`, `RealImages`, `WithinCap`, `OneAtATime`, with
  `ImagesOK`, `CapOK` and `GridOK` on the accumulator.

**Guest_proof**, of MCGuest's.

- Overlay frames: `OverlayInv` (the slots' roles; the last frame ended is
  where the window will find it), `RoomHolds`, `ShownKeeps`, `ImplementsBox`.
- The clock: `ClockInv` (each thread's last request is what the shared set
  has for it, whatever loads and swaps come between), `Monotonic`,
  `NotMoreThanWorth`, and `Accounted`: every span of the host's time is the guest's
  at the speed it passed at, or among what the clock says it excluded. For any
  speeds, gap and threads, host steps back included.
- The ARAM queue, for any requests and any chunk: `Sound` (a request is unused, in a
  queue, pending or told, in one of them; what of it has been moved lies below its
  source, or that and the chunk at the engine), `Phase` (while one waits, the engine
  moves, its interrupt stands or a callback is at work) and `FetchAlone` (the cache's
  fetch posts the one request that is its own). `RequestsServed` follows.
- The mods' callbacks, for any mods registered and any depth of the stack. What a
  dispatcher puts back is the mod that was counted when it was raised, and whose that
  was follows from the stack below it (`Nested`, `Owner`): nobody's in the game's own
  code and its handlers, the calling callback's in a function it called and in a handler
  that interrupts that. `Attribution` follows.

**Backend_proof**, of MCGuest's too.

- The pipelines, for any states, shapes and ring of at least one job
  (`PipeAssumption`). A place of the ring is free before its pipeline is made, so what
  `DrawnWithItsOwn` needs besides itself is who holds what: the draw path writes only
  the place past the newest job, which is none of those still to be read
  (`PlaceApart`, from the remainders of RingNumbers); a job in the ring stands whole
  (`RingWhole`); what the thread has read is that job, and what it made is its slot's
  (`ThreadSide`); and a slot filled in and not ready is with the draw path, in the
  ring or with the thread, with one of them alone (`EachOnce`).
- The frames in flight, for one slot or two, any halves, landings, textures and copies
  (`GpuAssumption`: a copy's bytes are of the span it covers), sent early or not, for
  any number of commands. A step of the consumer is several of the code's functions,
  most of which may finish a slot on the way, so the invariant (`Good`) is kept function
  by function, from `Finish` to `ScreenEnd`, and a step composes them. Its parts:
  - `Draws`: within a slot a place of the pool is written once, past all that was
    placed before it (`Upto`), and every recorded draw, and every place a later one
    may look up, will be found holding its content when the GPU gets there
    (`Will`, `Sound`); a place that a carry in flight reads is not written until the
    slot that carries is finished.
  - `Lands`: a cell of memory that is not yet right is covered by the copy that wrote it
    last, still to land, in one slot alone and without another over it (`Coming`,
    `Apart`), and the landings of a slot rise; so `say_landed`, which stops at the
    first, never passes it.
  - `Screens`: what is recorded draws only into the back slot; only one slot has
    anything to show; and what it has is the frame's own, newer than the window's and
    the one waiting (`Showing`, `Newer`).
  `DrawsSampleTheirs`, `LandedIsThere`, `ScreensWhole` and `NoneStranded` follow.
  Between `CopyReal` and `CopyMid` of one frame the recording slot has half of what it
  will show, and `Paused` says what is there.

**Files_proof**, of MCFiles', each across kills and starts.

- The memory card, for any number of pages, any sector and values. `Phase` says
  what the library is in the middle of and how far: mounting, at rest, with its
  interrupt up, handling it, erasing, programming; in each the channel, the line, the
  command and the dirty pages are what that step leaves. `Apart`: no page that is
  dirty has been told of, so a kill that tears one tears nothing told. `ToldStays` and
  the action property `LineRises` follow.
- The library (`LibraryInv`), for any files and first installs: what loads leaves
  its place only for `.old`, `.old` is thrown away only when what took its place has
  been loaded. `LibraryStays` follows, for launches that pick only over what they have
  tried (`Untried` is FALSE, as in the run; the run `library` refutes it otherwise).
- The disc (`DiscInv`), for any files and copy names: between any two calls
  `disc.txt` names a copy that is there or a permission still held (`FilesRight`), a
  run's own disc is at its path (`PathThere`), and a pick is decided before another is
  answered (`OnePick`). `DiscStays` and the action property `PickStays` follow, with
  `KilledAtRelease` FALSE as in the run.
- The mods' folders, for whatever they hold that a start may find (`FoldersAssumption`:
  finitely many folders, a place in `SOA_MOD_ORDER` being one folder's), any numbers and
  starts. `plan_order` gives an order of the folders that are there (`PlanOrderIs`),
  whatever its passes make of it. `ClaimsInv`: in the lock, in the text beside it and in
  memory a number is one claim's and a claim has one number, all below the next
  (`Right`); what a game has had stays among those of the lock, or of the text about to
  be renamed over it; and a lock that could not be read gives out nothing. `ClaimsStand`
  follows, with no kill between the removal and the rename, as in the run (`mods_claims`
  refutes it otherwise). `RefusedInv`: what stands is a loaded mod's (`Owned`), and of the
  folders passed so far each whose files are placed is loaded (`Passed`). `RefusedWhole`
  follows.
- The save extension, for any mods, chunks' sizes, rooms, maps and saves. `SaveInv`:
  every block and file is a save some snapshot made (`Saved`): in a save-now save its
  chunk comes first in the gap, with the map that stands in for its own, and it is nowhere
  else, since it is packed first and not kept from a load. `Landing` follows: a load finds
  that chunk, in a file half written too. `CarryInv`: what is kept of the mods that are
  away is what the game came with (`LeftOut`); then the gap with what is held (`InMenu`),
  the image (`InImage`) and the file (`OnCard`) hold at most one chunk of each mod, with
  what it had saved; and a tail still on the card while the next save is written has an
  older id, so that a block half written is never read with it. `ChunksCarried` follows under
  `Roomy`: no chunk is larger than `big`, and `big` times the mods and two more (save
  now's, and the room that the gap's last chunk may leave unused) is within the gap and
  the tail and 1. The run's constants meet it exactly (4 times 2 within 3 + 4 + 1).
  Something like it is needed: chunks are packed whole, so that what would fit in sum can
  lose one, and a chunk that does not fit is lost for good (`save_grown`).

**Induction over data.** The library's induction theorems take operators as
parameters, which the provers here cannot instantiate; its theorem that a
well-founded relation has minimal elements does not, and gives what is needed over
numbers (`MinOfNaturals`). From it come induction over a set of numbers
(`NaturalsAll`), what a repeated step leads to (`Repeated`), and, as a fold is by
definition a function chosen over the sets of a sequence's places, that there is such a
function (`FoldThere`) and that what each step keeps is kept to the end (`FoldStays`,
`RunStays`). Each fold of ModLoad and SaveExtension has a lemma of that form, with the
step as the module has it.

**Only model-checked.** Liveness (out of the prover's reach); `LastWord`, whose bound
of five folders is a count of plan_order's moves, for TLC to make; and EventTrack
(`ReplayIsRecording`, `NoStateLost`), ModPatches (`FactorsOnce`), FileTable
(`EachPathItsFile`) and FramePairs (`AsFifopair`), which relate two runs, or what is
built line by line to a definition of the whole.

**Only proved**, in no run: RenderPark's `NoLostWake`, `NoFalseSleep`,
`SleepersCounted`, `FenceHolds` and `ImplementsRing`; RenderQueue's
`NoCommandLost`, `CopiesInOrder` and `FramesLevel`; Clock's
`ClockInv`, `Monotonic` and `NotMoreThanWorth`; DeviceInterrupts' `Pace` and
`HandlersRunWhole`; `RoomHolds`, `ShownKeeps`; `RealImages`, `WithinCap` and
`OneAtATime`; the inductive invariants.

## 8. Findings

- **A hold counts as guest time** (`clock_hold`, `HoldIsNoTime`). While the
  guest thread waits out a pause at a safe point it does not read its clock, so
  the clock never learns of the pause, and the first read after it counts the
  whole of it, up to the gap threshold.
- **A mod's chunk that outgrows the room is lost** (`save_grown`,
  `ChunksCarried`). The save is to carry the mod's chunk from the save before;
  that chunk was not kept, because only chunks of mods that do *not* save for
  themselves are kept from a load.
- **Overrides left unsettled** (`mods_order`, `OverridesKept`). `plan_order` moves one
  mod a pass, behind one it overrides, and makes `k * k + 1` passes over `k` mods; but a
  move can put an earlier one wrong again. Where each overrides all the later ones by
  name, one more mod about doubles the moves: five need 26 and get 26, six need 57 and get
  37. The order then stands wrong, and is said to "go round in a circle", which it does
  not. Two mods that override each other, one of them turned off, are not the circle the
  code looks for either: they change places for ever and use up the passes of the rest
  (`OffInstalls` in place of `SixInstalls`).
- **Numbers given out again** (`mods_claims`, `ClaimsStand`). `mods.lock` is
  removed before its new text is renamed over it; after a kill in between the
  next start takes it for the first one.
- **Calls of the game outside the safe point's own callbacks** (`mod_calls`,
  `CallsFromSafePointsOnly`). The flag stays set while a called function runs,
  and the callbacks that raises may call in turn.
- **A library lost to a second untried pick** (`library`, `LibraryStays`). The
  first pick, put in place untried, takes the place of `.old` when a second is.
- **An image sampled after newer bytes** (`hook_forgets`, `ImagesCurrent`). A hook
  over part of a copy makes the renderer forget the whole copy
  (`gxr_hook_hazard`); over the rest of its bytes an older copy then seems the
  newest, and the image of that one, which no draw has looked up since, is sampled.
  It takes two copies over the same bytes and a hook beside the older of them
  within one frame.

Seen in the models, without a run of their own:

- `vfst.c:481` says "A refused mod leaves nothing behind": what a mod refused
  later asked for can refuse a good one before it. An alias whose target a bad
  mod's alias names too is refused as "itself an alias", and stays refused when
  the bad mod is; the 256 MiB limit counts in the same way. FileTable has this;
  `EachPathItsFile` speaks of the mods that stand.
- `CatchesUp` speaks of recordings that were killed: a report lets go of port 1 a frame
  past its last read (`si.c:1568`), and a game still reading there writes its own state for
  the same frame: two lines, where `pad_replay` (`si.c:1063`) counts on one a frame.
- `FactorsOnce` fails where two factors are on one word: each remembers what it
  wrote itself, and takes the other's write for the game's. The run's patches
  have one factor a word.
- `DiscStays` fails with `KilledAtRelease`: a permission is released before the
  `disc.txt` that no longer needs it is written.

Seen while reading, without a run of their own:

- `aramcache_fetch.c` speaks of a chunk widened to 32 bytes; the default is 4096,
  and it is narrowed.
- `gxr.c:2373` pairs a draw with "the oldest unmatched draw of F"; since H18a
  (`gxr.c:2522`) it is the nearest of the first 32. `AsFifopair` states the later
  rule, which the tool has too.
- `gxr.c:901` says copies and clears wait for the queue to drain; since
  `gxr.c:3836` they are fenced.
- `clock.c:77` counts the span up to a pause without the gap's rule
  (`clock.c:11` states the rule for every gap).
- `interp_budget.h:100`: `held` past 300 after a change of display never
  forgets (`:26` says it does); `:94`: a flag left set keeps a failed try from
  being counted (`:22`).
- `gxr.c:2744` has a top of two images at 85 Hz, where most frames make three
  (`:2738`).
- `gxr.c:3247`: `g_ring_done` is an `int32_t` taken modulo the workers; with a
  number of workers that is no power of two its wrap, after some five weeks,
  makes one frame torn. ScreenRing's `CountMod` models the width; the run and the
  proof stay under it (`RingAssumption`).
- `si.c:931`: a killed recording that held a host button or port 2 never lets go
  of it (`docs/specs/event-track.md:11`, `si.c:926`). `ReplayIsRecording` says
  so: it asks port 2's equality only up to where the recording held it.
- `si.c:917`: an empty recording replays the live input, while `si.c:918` says
  otherwise.

`docs/specs/comfort-pack.md:158` and `gxr.c`'s comment on the token race
agree with what the models do.

## 9. Not modelled, and why

- Arithmetic and formats (TEV, textures, shaders, the mixer, floating point, PNG,
  SHA-1, the GX front end's parsing, a mod.ini's and a patches.txt's syntax):
  sequential functions of data, tested against the console's or a reference in
  `selftest.c`; nothing in them depends on an order.
- Host interfaces (windows, swap chains, sound output, Java, dialogs): they call
  into systems this repository does not hold. A Vulkan call that fails stops the
  run, but for a pipeline's.
- Settings and the menu's pages: one thread's edits of a text file.
- The DSP's mailboxes: one mail at a time from one driver, answered where it is
  written; the sound's DMA is modelled.
- Guest threads: the game has one besides the idle loop, which every switch
  finds; the scheduler is the game's own.
- Test code (`selftest.c`, `src/examples/mods/lab`, `src/tools/gpuspike`), the
  recompiler and the Python tools run before or beside the program, not in it.
- Start-up, reports, the watchdog and the sampler only read, or run alone.
- Of the components that are modelled in part, what their "note" in
  `PROJECT.json` and section 4 name as left out.

## 10. Running the checks

    tlc -workers 2 -config RenderQueue.cfg MCRenderQueue.tla
    tlapm RenderQueue_proof.tla

Each run of `PROJECT.json` names its module and configuration. "mutants" names,
for each property, a definition and a changed form of it (next to it in the
module, its name extended by what is wrong) under which TLC finds the property
violated in that run.

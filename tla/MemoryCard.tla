----------------------------- MODULE MemoryCard -----------------------------
(***************************************************************************)
(* The memory card in slot A (exi.c): a serial device framed by the chip   *)
(* select, whose array is a file written through at the end of every       *)
(* erase and page program, and whose interrupt line tells the game that a  *)
(* write is done.  The game's card library drives it through the channel's *)
(* registers, one transaction after another, and waits for the line; the   *)
(* program can be killed at any step, in the middle of a write to the file *)
(* too.  A page's bytes are one value, and page 1 is the header that       *)
(* carries the flash ID the card was formatted with.                       *)
(***************************************************************************)
EXTENDS Integers, Sequences, FiniteSets

CONSTANTS Pages,       \* 1 .. n
          Sector,      \* pages in a sector
          Values,      \* what the game writes in a data page
          MaxWrites,   \* bounds of the model: erases and programs,
          MaxStarts    \* and starts

VARIABLES file,        \* the image on disk: NoFile, or a page's value each
          array,       \* g_card, NotLoaded before the first access
          channel,     \* g_ch[0]: selected, pos > 0, EXIINT, EXIINTMSK
          cmd,         \* g_card_cmd
          line,        \* g_card_int_en, g_card_int_req
          dirty,       \* g_card_dirty, _lo, _hi: the pages between, or {}
          sram,        \* SRAM's flash ID, Unread before sram_init
          script,      \* what the card library does next
          job,         \* the write it waits for: the pages it leaves, or NoJob
          told,        \* history: the pages the game was told are written
          writes, starts

card == <<array, channel, cmd, line, dirty, sram>>
vars == <<file, card, script, job, told, writes, starts>>

Blank == "blank"
Ours == "ours"          \* CARD_FLASH_ID
Ids == {Ours, "theirs"}
NoFile == <<>>
NotLoaded == <<>>
Unread == "unread"
NoJob == <<>>
Erased == [p \in Pages |-> Blank]
SectorOf(p) == {q \in Pages : (q - 1) \div Sector = (p - 1) \div Sector}

\* Flash: a program only clears bits.
And(was, v) == IF was \in {Blank, v} THEN v ELSE "mixed"

Quiet == [selected |-> -1, begun |-> FALSE, int |-> FALSE, mask |-> TRUE]

\* The library's steps: a write to the channel's status register, a transfer.
Csr(sel, ack, mask) == [op |-> "csr", sel |-> sel, ack |-> ack, mask |-> mask]
Xfer(c, p, v) == [op |-> "xfer", cmd |-> c, page |-> p, value |-> v]
Framed(c, p, v) == <<Csr(0, FALSE, TRUE), Xfer(c, p, v), Csr(-1, FALSE, TRUE)>>
ProgramOf(p, v) == <<Csr(0, FALSE, TRUE), Xfer("program", p, Blank),
                     Xfer("program", p, v), Csr(-1, FALSE, TRUE)>>
SramRead == <<Csr(1, FALSE, TRUE), Xfer("sram", 1, Blank), Csr(-1, FALSE, TRUE)>>
Mount == SramRead \o Framed("enable", 1, Blank) \o Framed("read", 1, Blank)
\* __CARDExiHandler: acknowledged with its mask down, status read and cleared.
Handler == <<Csr(-1, TRUE, FALSE), Csr(0, FALSE, FALSE), Xfer("status", 1, Blank),
             Csr(-1, FALSE, FALSE), Csr(0, FALSE, FALSE), Xfer("clear", 1, Blank),
             Csr(-1, FALSE, TRUE)>>

Init ==
    /\ file \in {NoFile, [Erased EXCEPT ![1] = "theirs"]}
    /\ array = NotLoaded /\ channel = Quiet /\ cmd = "none"
    /\ line = [en |-> FALSE, req |-> FALSE] /\ dirty = {} /\ sram = Unread
    /\ script = Mount /\ job = NoJob /\ told = <<>> /\ writes = 0 /\ starts = 1

-----------------------------------------------------------------------------
(* The card's side of a byte *)

\* card_load: blank flash under whatever the image holds.
Load == IF array # NotLoaded THEN array
        ELSE IF file = NoFile THEN Erased ELSE file

\* The ID a formatted image was made with, the constant for any other.
FlashId_Ours(a) == Ours
FlashId(a) == IF a[1] \in Ids THEN a[1] ELSE Ours

Between(a, b) == {p \in Pages : a <= p /\ p <= b}
Widened(pages) ==
    LET all == dirty \cup pages
    IN Between(CHOOSE p \in all : \A q \in all : p <= q,
               CHOOSE p \in all : \A q \in all : p >= q)

\* The sector that holds the addressed page is erased.
EraseRange_From(p) == {q \in Pages : p <= q /\ q < p + Sector}
EraseRange(p) == SectorOf(p)

\* Clear status is one byte, and lets the interrupt line go.
Released_Kept(c) == line.req
Released(c) == line.req /\ c # "clear"

Transfer(x) ==
    LET c == IF channel.begun THEN cmd ELSE x.cmd
        program == c = "program" /\ channel.begun
    IN IF channel.selected = 0
       THEN /\ cmd' = c
            /\ array' = IF program THEN [Load EXCEPT ![x.page] = And(@, x.value)]
                        ELSE IF c = "erase"
                        THEN [p \in Pages |-> IF p \in EraseRange(x.page) THEN Blank ELSE Load[p]]
                        ELSE Load
            /\ dirty' = IF program THEN Widened({x.page})
                        ELSE IF c = "erase" THEN Widened(EraseRange(x.page)) ELSE dirty
            /\ line' = [en |-> line.en \/ c = "enable", req |-> Released(c)]
            /\ channel' = [channel EXCEPT !.begun = TRUE]
            /\ UNCHANGED sram
       ELSE \* device 1: sram_init takes the flash ID from the image
            /\ array' = Load
            /\ sram' = IF sram = Unread THEN FlashId(Load) ELSE sram
            /\ channel' = [channel EXCEPT !.begun = TRUE]
            /\ UNCHANGED <<cmd, dirty, line>>

\* card_flush: the dirty pages written through, a new file's every page.
Flushed == IF file = NoFile THEN array
           ELSE [p \in Pages |-> IF p \in dirty THEN array[p] ELSE file[p]]

\* The chip select going away frames a write: the file, then the line.
Writing == {"erase", "program"}
Deselects(x) == channel.selected = 0 /\ x.sel # 0
CsrWrite(x) ==
    LET done == Deselects(x) /\ cmd \in Writing
        rises == done /\ line.en /\ ~line.req
    IN /\ channel' = [selected |-> x.sel,
                      begun |-> x.sel = channel.selected /\ channel.begun,
                      int |-> rises \/ (channel.int /\ ~x.ack),
                      mask |-> x.mask]
       /\ line' = [line EXCEPT !.req = @ \/ rises]
       /\ file' = IF done /\ dirty # {} THEN Flushed ELSE file
       /\ dirty' = IF done THEN {} ELSE dirty
       /\ UNCHANGED <<array, cmd, sram>>

-----------------------------------------------------------------------------
(* The game's card library (external) *)

LibraryStep ==
    /\ script # <<>>
    /\ LET x == Head(script)
       IN IF x.op = "csr" THEN CsrWrite(x) ELSE Transfer(x) /\ UNCHANGED file
    /\ script' = Tail(script)
    /\ UNCHANGED <<job, told, writes, starts>>

\* The interrupt, once the handler has run, ends the write it waited for.
InterruptTaken ==
    /\ script = <<>> /\ channel.int /\ channel.mask
    /\ script' = Handler
    /\ told' = [p \in DOMAIN job \cup DOMAIN told |->
                    IF p \in DOMAIN job THEN job[p] ELSE told[p]]
    /\ job' = NoJob
    /\ UNCHANGED <<file, card, writes, starts>>

\* A write is given up as told again only once it is done.
Forget(pages) == [p \in (DOMAIN told) \ pages |-> told[p]]
Free == script = <<>> /\ job = NoJob /\ ~channel.int /\ writes < MaxWrites

EraseSector(p) ==
    /\ Free /\ SectorOf(p) # {}
    /\ script' = Framed("erase", p, Blank)
    /\ job' = [q \in SectorOf(p) |-> Blank]
    /\ told' = Forget(SectorOf(p))
    /\ writes' = writes + 1
    /\ UNCHANGED <<file, card, starts>>

\* A page programmed on erased flash: data, or the header as SRAM has it.
ProgramPage(p, v) ==
    /\ Free /\ array[p] = Blank
    /\ v = sram \/ p # 1
    /\ script' = ProgramOf(p, v)
    /\ job' = [q \in {p} |-> v]
    /\ told' = Forget({p})
    /\ writes' = writes + 1
    /\ UNCHANGED <<file, card, starts>>

-----------------------------------------------------------------------------
(* The program killed, and started again *)

\* Killed in the middle of the write through, a page of it is torn.
Killed ==
    /\ starts < MaxStarts
    /\ \/ file' = file
       \/ /\ script # <<>> /\ Head(script).op = "csr" /\ Deselects(Head(script))
          /\ cmd \in Writing /\ dirty # {}
          /\ \E n \in dirty :
                file' = [p \in Pages |-> IF p \in dirty /\ p < n THEN array[p]
                                         ELSE IF p = n THEN "torn"
                                         ELSE IF file = NoFile THEN Blank ELSE file[p]]
    /\ array' = NotLoaded /\ channel' = Quiet /\ cmd' = "none"
    /\ line' = [en |-> FALSE, req |-> FALSE] /\ dirty' = {} /\ sram' = Unread
    /\ script' = Mount /\ job' = NoJob
    /\ starts' = starts + 1
    /\ UNCHANGED <<told, writes>>

Next ==
    \/ LibraryStep \/ InterruptTaken \/ Killed
    \/ \E p \in Pages : EraseSector(p) \/ \E v \in Values \cup Ids : ProgramPage(p, v)

Spec == Init /\ [][Next]_vars

-----------------------------------------------------------------------------
(* Properties *)

\* A page the game was told is written holds what was written, in the array
\* and, once the program is killed and started again, in the file: what a kill
\* takes is at most the write still waited for (card_flush at the deselect).
ToldStays ==
    \A p \in DOMAIN told :
        /\ file # NoFile /\ file[p] = told[p]
        /\ array # NotLoaded => array[p] = told[p]

\* A write that is framed raises the line the game waits for, and is never
\* left to the library's 100 ms timeout, whatever the writes and handlers before
\* it left in the line and the channel (card_deselected's rising edge).
LineRises == job # NoJob /\ script = <<>> => channel.int

\* A card formatted here or elsewhere verifies: SRAM presents the flash ID that
\* the image's header was made with, from one start to the next (card_flash_id).
CardVerifies ==
    sram # Unread /\ array # NotLoaded /\ array[1] \in Ids => array[1] = sram
=============================================================================

------------------------------- MODULE Flash -------------------------------
(***************************************************************************)
(* The storage driver of flash.c: writes go through a buffer that holds    *)
(* one page, flash_page_buf, and reach the chip when another page is       *)
(* written or flash_sync is called.  The flash is memory mapped, so the    *)
(* caller reads the chip and never the buffer.  Power may fail at any      *)
(* time, in the middle of a program or erase operation too.                *)
(*                                                                         *)
(* Addresses count cells of 8 bits from the start of the chip.  The        *)
(* storage area does not begin at 0 (SPI_STORAGE_OFFSET), which is what    *)
(* lets last_page_addr = 0 stand for an empty buffer.                      *)
(***************************************************************************)
EXTENDS Integers, Sequences, FiniteSetsExt

CONSTANTS
  PageSize,     \* FLASH_PAGE_SIZE
  NPages,       \* SPI_STORAGE_SIZE in pages
  SectorPages,  \* JD_FLASH_PAGE_SIZE, the unit of erasure, in pages
  Align,        \* a write begins at a multiple of Align: 8
  Value,        \* contents of a programmed cell
  MaxLen        \* bound on the length of one write

FF      == "ff"        \* an erased cell
Garbage == "garbage"   \* a cell programmed twice: the AND of two values
Zero    == "zero"      \* a cell of the buffer before it is first filled
Cell    == Value \cup {FF, Garbage}

ASSUME FlashAssumption ==
  /\ {PageSize, NPages, SectorPages, Align} \subseteq Nat \ {0} /\ MaxLen \in Nat
  /\ PageSize % Align = 0 /\ NPages % SectorPages = 0
  /\ {FF, Garbage, Zero} \cap Value = {}

Addr       == PageSize .. (NPages + 1) * PageSize - 1
SectorSize == SectorPages * PageSize
Sector(k)  == PageSize + k * SectorSize .. PageSize + (k + 1) * SectorSize - 1
Sectors    == 0 .. NPages \div SectorPages - 1

VARIABLES
  flash,            \* the chip
  last_page_addr,   \* address of the buffered page, or 0
  flash_page_buf,   \* its contents
  call,             \* the flash_program in progress: off, and src left to write
  mem,              \* what the calls made so far ask the storage to contain
  fault             \* first failed assertion

vars == <<flash, last_page_addr, flash_page_buf, call, mem, fault>>

NoCall == [off |-> 0, src |-> <<>>]

TypeOK ==
  /\ flash \in [Addr -> Cell] /\ mem \in [Addr -> Cell]
  /\ last_page_addr \in {0} \cup {a \in Addr : a % PageSize = 0}
  /\ flash_page_buf \in [0 .. PageSize - 1 -> Cell \cup {Zero}]
  /\ call.off \in Nat /\ call.src \in Seq(Value)
  /\ fault \in {"none", "len", "programmed"}

Init ==
  /\ flash = [a \in Addr |-> FF] /\ mem = flash
  /\ last_page_addr = 0 /\ flash_page_buf = [i \in 0 .. PageSize - 1 |-> Zero]
  /\ call = NoCall /\ fault = "none"

-----------------------------------------------------------------------------
(* The chip (external). *)

\* Programming only clears bits: a cell takes a value if it is erased, and
\* keeps the one it has if it is given the same or left erased.
ProgramCell(old, new) ==
  CASE old = FF             -> new
    [] new \in {old, FF}    -> old
    [] OTHER                -> Garbage

\* The cells S of the page at p have been programmed with the buffer.
flash_range_program(p, S) ==
  [a \in Addr |-> IF a \in S THEN ProgramCell(flash[a], flash_page_buf[a - p]) ELSE flash[a]]

flash_range_erase(S) == [a \in Addr |-> IF a \in S THEN FF ELSE flash[a]]

-----------------------------------------------------------------------------
(* flash.c *)

PageOf(a)   == a - (a % PageSize)        \* addr & ~PAGE_MASK
PageAt(p)   == p .. p + PageSize - 1
Buffered(a) == last_page_addr # 0 /\ a \in PageAt(last_page_addr)

\* A cell of the storage: the buffered page hides the chip.
Contents(a) == IF Buffered(a) THEN flash_page_buf[a - last_page_addr] ELSE flash[a]

Idle   == call.src = <<>> /\ fault = "none"
Active == call.src # <<>> /\ fault = "none"

\* The part of a call in progress that is still to be written.
Rest == call.off .. call.off + Len(call.src) - 1

\* The body of flash_sync when a page is buffered.
SyncBuffer ==
  /\ flash' = flash_range_program(last_page_addr, PageAt(last_page_addr))
  /\ last_page_addr' = 0
  /\ UNCHANGED flash_page_buf

flash_sync ==
  /\ Idle /\ last_page_addr # 0
  /\ SyncBuffer
  /\ UNCHANGED <<call, mem, fault>>

\* flash_program accepts aligned ranges inside the storage area.
flash_program(o, s) ==
  /\ Idle
  /\ (o - PageSize) % Align = 0 /\ o + Len(s) - 1 \in Addr
  /\ call' = [off |-> o, src |-> s]
  /\ mem' = [a \in Addr |-> IF a \in o .. o + Len(s) - 1 THEN s[a - o + 1] ELSE mem[a]]
  /\ UNCHANGED <<flash, last_page_addr, flash_page_buf, fault>>

\* Variant: the last cell of a page is left to the next chunk.
ChunkShort == Min({PageSize - 1 - (call.off % PageSize), Len(call.src)})

\* One iteration of the loop of flash_program writes up to the end of a page.
Chunk == Min({PageSize - (call.off % PageSize), Len(call.src)})

\* flash_program_page finds another page in the buffer.
MustSwitch == Active /\ Chunk < PageSize /\ last_page_addr \notin {0, PageOf(call.off)}
MayFill    == Active /\ Chunk < PageSize /\ last_page_addr \in {0, PageOf(call.off)}

\* Variant: the buffered page is not written back.
SwitchWithoutSync ==
  /\ MustSwitch
  /\ last_page_addr' = 0
  /\ UNCHANGED <<flash, flash_page_buf, call, mem, fault>>

\* Variant: that page stays, and the chunk is programmed past the buffer.
ProgramPastBuffer ==
  /\ MustSwitch
  /\ flash' = [a \in Addr |-> IF a \in call.off .. call.off + Chunk - 1
                              THEN ProgramCell(flash[a], call.src[a - call.off + 1]) ELSE flash[a]]
  /\ call' = [off |-> call.off + Chunk, src |-> SubSeq(call.src, Chunk + 1, Len(call.src))]
  /\ UNCHANGED <<last_page_addr, flash_page_buf, mem, fault>>

\* Write that page back, ...
SwitchPage ==
  /\ MustSwitch
  /\ SyncBuffer
  /\ UNCHANGED <<call, mem, fault>>

\* (the buffer after it was filled from the chip, unless it held the page,
\* and the chunk was copied into it)
FilledBuffer(p) ==
  [i \in 0 .. PageSize - 1 |->
     IF p + i \in call.off .. call.off + Chunk - 1 THEN call.src[p + i - call.off + 1]
     ELSE IF last_page_addr = p THEN flash_page_buf[i] ELSE flash[p + i]]

\* Variant: cells that are already programmed are written again.
ProgramPageUnchecked ==
  LET p == PageOf(call.off)
  IN  /\ MayFill
      /\ flash_page_buf' = FilledBuffer(p) /\ last_page_addr' = p
      /\ call' = [off |-> call.off + Chunk, src |-> SubSeq(call.src, Chunk + 1, Len(call.src))]
      /\ UNCHANGED <<flash, mem, fault>>

\* Variant: the buffer is labelled with the address of the chunk.
ProgramPageAtOffset ==
  /\ MayFill
  /\ \A a \in call.off .. call.off + Chunk - 1 : flash[a] = FF
  /\ flash_page_buf' = FilledBuffer(PageOf(call.off)) /\ last_page_addr' = call.off
  /\ call' = [off |-> call.off + Chunk, src |-> SubSeq(call.src, Chunk + 1, Len(call.src))]
  /\ UNCHANGED <<flash, mem, fault>>

\* ... then copy the chunk, every cell of which must be erased on the chip.
ProgramPage ==
  LET p == PageOf(call.off)
  IN  /\ MayFill
      /\ \A a \in call.off .. call.off + Chunk - 1 : flash[a] = FF
      /\ flash_page_buf' = FilledBuffer(p) /\ last_page_addr' = p
      /\ call' = [off |-> call.off + Chunk, src |-> SubSeq(call.src, Chunk + 1, Len(call.src))]
      /\ UNCHANGED <<flash, mem, fault>>

\* The assertions of flash_program_page: the length of a chunk is tested
\* first, the cells once the page is buffered.
AssertLen ==
  /\ Active /\ Chunk >= PageSize
  /\ fault' = "len"
  /\ UNCHANGED <<flash, last_page_addr, flash_page_buf, call, mem>>

AssertErased ==
  /\ MayFill
  /\ \E a \in call.off .. call.off + Chunk - 1 : flash[a] # FF
  /\ fault' = "programmed"
  /\ UNCHANGED <<flash, last_page_addr, flash_page_buf, call, mem>>

\* What the caller owes flash_erase, which does not look at the buffer: a
\* page of the sector that is still buffered would be programmed again.
SyncedBeforeErase(k) == last_page_addr \notin Sector(k)

flash_erase(k) ==
  /\ Idle /\ SyncedBeforeErase(k)
  /\ flash' = flash_range_erase(Sector(k))
  /\ mem' = [a \in Addr |-> IF a \in Sector(k) THEN FF ELSE mem[a]]
  /\ UNCHANGED <<last_page_addr, flash_page_buf, call, fault>>

-----------------------------------------------------------------------------
(* Power failures (external); a panic ends in a reset too.                 *)

\* The static variables are zero again; the storage holds what the chip does.
Reset(contents) ==
  /\ flash' = contents /\ mem' = contents
  /\ last_page_addr' = 0 /\ flash_page_buf' = [i \in 0 .. PageSize - 1 |-> Zero]
  /\ call' = NoCall /\ fault' = "none"

PowerLoss == Reset(flash)

\* In the middle of the write of the buffer: some cells are programmed.
PowerLossInSync ==
  /\ last_page_addr # 0 /\ (Idle \/ MustSwitch)
  /\ \E S \in SUBSET PageAt(last_page_addr) : Reset(flash_range_program(last_page_addr, S))

PowerLossInErase(k) ==
  /\ Idle /\ SyncedBeforeErase(k)
  /\ \E S \in SUBSET Sector(k) : Reset(flash_range_erase(S))

Requests == UNION {[1 .. n -> Value] : n \in 1 .. MaxLen}

\* The driver's own steps.
Driver == SwitchPage \/ ProgramPage \/ AssertLen \/ AssertErased

Next ==
  \/ \E o \in Addr, s \in Requests : flash_program(o, s)
  \/ Driver \/ flash_sync
  \/ \E k \in Sectors : flash_erase(k) \/ PowerLossInErase(k)
  \/ PowerLoss \/ PowerLossInSync

Spec == Init /\ [][Next]_vars

-----------------------------------------------------------------------------
(* Properties. *)

\* The chip with the buffered page laid over it is what the calls asked for,
\* outside the part of a call that is still to be written: chunks land where
\* they belong, the rest of a page survives the write of a part of it, and a
\* page that leaves the buffer is on the chip (flash.c:22-35, 44-52).
ReadBack == \A a \in Addr \ Rest : mem[a] = Contents(a)

\* A cell is never programmed over another value, also when the writes before
\* a power failure are repeated after it (assertion at flash.c:33).
NoGarbage == \A a \in Addr : flash[a] # Garbage

\* The types, and no cell of the chip or of a page was written twice.
ContentsOK == TypeOK /\ NoGarbage

\* Pages reach the chip in the order in which they were written: when a cell is
\* programmed, in a program that a power failure cuts short too, everything
\* asked for on other pages is on the chip already, so that a record that
\* commits another page is never found without it.  An erasure goes to the chip
\* at once and may overtake the buffered page, but nothing else (flash.c:9-36,
\* 55-63).
PagesInOrder ==
  [][\A a, b \in Addr :
       flash'[a] # flash[a] /\ b \notin Rest /\ PageOf(b) # PageOf(a)
         => flash[b] = mem[b] \/ (flash'[a] = FF /\ Buffered(b))]_vars

\* The driver is a memory that is written behind: a cell changes only to what
\* a call asked for, it leaves the buffer only for the chip, and a power
\* failure leaves each cell old or new (flash.c:9-36, 55-63).
S == INSTANCE Store WITH Erased <- FF, view <- mem, durable <- flash,
                         cache <- [a \in Addr |-> Contents(a)]
IsStore == S!Spec

\* Twice what is left of the call, and the page to write back before it.
Work == IF Active THEN 2 * Len(call.src) + (IF MustSwitch THEN 1 ELSE 0) ELSE 0

\* The loop of flash_program ends: it waits for nothing, and every one of its
\* steps leaves less to do, wherever the call starts in a page and whatever
\* page is buffered (flash.c:44-52).
ProgramEnds == [][Driver => Work' < Work]_vars

\* JD_ASSERT(len < FLASH_PAGE_SIZE) holds of every chunk that flash_program
\* passes to flash_program_page (flash.c:19).
ChunkFits == fault # "len"
=============================================================================

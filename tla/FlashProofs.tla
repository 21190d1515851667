----------------------------- MODULE FlashProofs ----------------------------
(***************************************************************************)
(* Proofs about Flash for any size of page, sector and storage area, any   *)
(* values and any bound on the length of a write.                          *)
(***************************************************************************)
EXTENDS Flash, TLAPS

-----------------------------------------------------------------------------
(* The inductive invariant. *)

Clean   == Value \cup {FF}
IsPage(p) == p \in Addr /\ p % PageSize = 0

\* The buffered page goes over the chip without a conflict: where the chip is
\* not erased the two agree.
BufInv == last_page_addr # 0 =>
  \A i \in 0 .. PageSize - 1 : /\ flash_page_buf[i] \in Clean
                               /\ flash[last_page_addr + i] \in {FF, flash_page_buf[i]}

\* What is left of a call is inside the storage area and is what the storage is
\* to contain there.
CallInv == call.src # <<>> =>
  /\ call.off \in Addr /\ call.off + Len(call.src) - 1 \in Addr
  /\ \A j \in 1 .. Len(call.src) : mem[call.off + j - 1] = call.src[j]

IInv == TypeOK /\ NoGarbage /\ BufInv /\ CallInv /\ ReadBack

-----------------------------------------------------------------------------
(* Pages, sectors and chunks. *)

LEMMA Sizes ==
  /\ PageSize \in Nat /\ PageSize > 0 /\ NPages \in Nat /\ NPages > 0
  /\ SectorPages \in Nat /\ SectorPages > 0 /\ MaxLen \in Nat
  /\ FF \notin Value /\ Garbage \notin Value /\ Zero \notin Value
  BY FlashAssumption

\* Of two multiples of P, one is at least P more than the other.
LEMMA Multiples ==
  ASSUME NEW P \in Nat \ {0}, NEW j \in Int, NEW m \in Int, j * P < m * P
  PROVE  j * P + P <= m * P
<1>1. j < m OBVIOUS
<1>2. (j + 1) * P <= m * P BY <1>1
<1>3. (j + 1) * P = j * P + P OBVIOUS
<1> QED BY <1>2, <1>3

LEMMA Quotient ==
  ASSUME NEW P \in Nat \ {0}, NEW a \in Nat, a % P = 0
  PROVE  \E j \in Nat : a = j * P
<1>1. a = P * (a \div P) + (a % P) OBVIOUS
<1>2. a \div P \in Nat OBVIOUS
<1> QED BY <1>1, <1>2

\* A page lies inside the storage area as a whole, and not at 0.
LEMMA PageInside ==
  ASSUME NEW p, IsPage(p)
  PROVE  /\ p \in Nat /\ p # 0 /\ PageAt(p) \subseteq Addr
         /\ \A i \in 0 .. PageSize - 1 : p + i \in PageAt(p)
<1>1. p \in Nat /\ PageSize <= p /\ p <= (NPages + 1) * PageSize - 1 BY Sizes DEF IsPage, Addr
<1>2. PICK j \in Nat : p = j * PageSize BY <1>1, Sizes, Quotient DEF IsPage
<1>3. j * PageSize + PageSize <= (NPages + 1) * PageSize BY <1>1, <1>2, Sizes, Multiples
<1>4. PageAt(p) \subseteq Addr BY <1>1, <1>2, <1>3, Sizes DEF PageAt, Addr
<1> QED BY <1>1, <1>4, Sizes DEF PageAt

\* The page of an address.
LEMMA PageOfAddr ==
  ASSUME NEW a \in Addr
  PROVE  IsPage(PageOf(a)) /\ a \in PageAt(PageOf(a)) /\ a % PageSize \in 0 .. PageSize - 1
         /\ a \in Nat
<1>1. a \in Nat /\ PageSize <= a /\ a <= (NPages + 1) * PageSize - 1 BY Sizes DEF Addr
<1>2. a % PageSize \in 0 .. PageSize - 1 BY <1>1, Sizes
<1>3. PICK j \in Nat : a - (a % PageSize) = j * PageSize BY <1>1, Sizes
<1>4. (j * PageSize) % PageSize = 0 BY Sizes
<1>5. PageSize <= j * PageSize
  <2>1. j # 0 BY <1>1, <1>2, <1>3, Sizes
  <2> QED BY <2>1, Sizes
<1>6. IsPage(PageOf(a)) BY <1>1, <1>2, <1>3, <1>4, <1>5, Sizes DEF IsPage, PageOf, Addr
<1>7. a \in PageAt(PageOf(a)) BY <1>1, <1>2, Sizes DEF PageOf, PageAt
<1> QED BY <1>1, <1>2, <1>6, <1>7

\* A page that does not begin in a sector has no cell in it.
LEMMA SectorPage ==
  ASSUME NEW k \in Sectors, NEW p, IsPage(p), p \notin Sector(k), NEW a \in PageAt(p)
  PROVE  a \notin Sector(k)
<1> DEFINE lo == 1 + k * SectorPages
           hi == 1 + (k + 1) * SectorPages
<1>1. k \in Int BY DEF Sectors
<1>2. lo \in Int /\ hi \in Int BY <1>1, Sizes
<1>3. Sector(k) = lo * PageSize .. hi * PageSize - 1
  <2>1. lo * PageSize = PageSize + k * SectorSize BY <1>1, Sizes DEF SectorSize
  <2>2. hi * PageSize = PageSize + (k + 1) * SectorSize BY <1>1, Sizes DEF SectorSize
  <2>3. lo * PageSize \in Int /\ hi * PageSize \in Int /\ SectorSize \in Int
    BY <1>2, Sizes DEF SectorSize
  <2> HIDE DEF lo, hi
  <2> QED BY <1>1, <2>1, <2>2, <2>3, Sizes DEF Sector
<1> HIDE DEF lo, hi
<1>4. p \in Nat BY PageInside
<1>5. PICK j \in Nat : p = j * PageSize BY <1>4, Sizes, Quotient DEF IsPage
<1>6. lo * PageSize \in Int /\ hi * PageSize \in Int BY <1>2, Sizes
<1>7. p < lo * PageSize \/ p >= hi * PageSize BY <1>3, <1>4, <1>6
<1>8. p < lo * PageSize => p + PageSize <= lo * PageSize BY <1>2, <1>5, Sizes, Multiples
<1>9. a \in Int /\ p <= a /\ a <= p + PageSize - 1 BY <1>4, Sizes DEF PageAt
<1> QED BY <1>3, <1>4, <1>6, <1>7, <1>8, <1>9, Sizes

\* A chunk is not empty and ends with the call or with the page.
LEMMA ChunkBounds ==
  ASSUME TypeOK, CallInv, call.src # <<>>
  PROVE  /\ Chunk \in 1 .. Len(call.src) /\ Len(call.src) \in Nat
         /\ (call.off % PageSize) + Chunk <= PageSize
         /\ call.off .. call.off + Chunk - 1 \subseteq PageAt(PageOf(call.off))
<1> DEFINE r == PageSize - (call.off % PageSize)
           n == Len(call.src)
<1>1. call.off \in Addr BY DEF CallInv
<1>2. call.off \in Nat /\ r \in 1 .. PageSize BY <1>1, PageOfAddr, Sizes
<1>3. n \in Nat /\ n > 0 BY DEF TypeOK
<1>4. \E x \in {r, n} : \A y \in {r, n} : x =< y BY <1>2, <1>3
<1>5. Chunk \in {r, n} /\ Chunk <= r /\ Chunk <= n BY <1>4 DEF Chunk, Min
<1>6. Chunk \in 1 .. n /\ (call.off % PageSize) + Chunk <= PageSize
  BY <1>1, <1>2, <1>3, <1>5, PageOfAddr, Sizes
<1>7. call.off .. call.off + Chunk - 1 \subseteq PageAt(PageOf(call.off))
  <2>1. (call.off % PageSize) \in 0 .. PageSize - 1 BY <1>1, PageOfAddr
  <2>2. ASSUME NEW a \in call.off .. call.off + Chunk - 1
        PROVE  a \in call.off - (call.off % PageSize) .. call.off - (call.off % PageSize) + PageSize - 1
    BY <1>2, <1>3, <1>6, <2>1, Sizes
  <2> QED BY <2>2 DEF PageAt, PageOf
<1> QED BY <1>3, <1>6, <1>7

-----------------------------------------------------------------------------
(* What the steps do to the storage. *)

\* The chip holds no garbage.
LEMMA ChipClean ==
  ASSUME TypeOK, NoGarbage
  PROVE  flash \in [Addr -> Cell] /\ \A a \in Addr : flash[a] \in Clean
  BY DEF TypeOK, NoGarbage, Cell, Clean

\* The buffered page, cell by cell.
LEMMA BufferedCells ==
  ASSUME IInv, last_page_addr # 0, NEW a \in PageAt(last_page_addr)
  PROVE  /\ a \in Addr /\ Buffered(a) /\ Contents(a) = flash_page_buf[a - last_page_addr]
         /\ Contents(a) \in Clean /\ flash[a] \in {FF, Contents(a)}
<1>1. IsPage(last_page_addr) BY DEF IInv, TypeOK, IsPage
<1>2. last_page_addr \in Nat /\ a \in Addr BY <1>1, PageInside
<1>3. a - last_page_addr \in 0 .. PageSize - 1 /\ last_page_addr + (a - last_page_addr) = a
  BY <1>2, Sizes DEF PageAt
<1>4. Buffered(a) /\ Contents(a) = flash_page_buf[a - last_page_addr] BY DEF Buffered, Contents
<1> QED BY <1>2, <1>3, <1>4 DEF IInv, BufInv

\* Programming any part of the buffered page leaves there what was accepted.
LEMMA ProgramEffect ==
  ASSUME IInv, last_page_addr # 0, NEW X \in SUBSET PageAt(last_page_addr)
  PROVE  LET new == flash_range_program(last_page_addr, X)
         IN  /\ new \in [Addr -> Cell]
             /\ \A a \in Addr : /\ new[a] = IF a \in X THEN Contents(a) ELSE flash[a]
                                /\ new[a] \in Clean
<1> DEFINE new == flash_range_program(last_page_addr, X)
<1>1. \A a \in Addr : flash[a] \in Clean BY ChipClean DEF IInv
<1>2. ASSUME NEW a \in Addr
      PROVE  new[a] = (IF a \in X THEN Contents(a) ELSE flash[a]) /\ new[a] \in Clean
  <2>1. CASE a \in X
    <3>1. /\ Contents(a) = flash_page_buf[a - last_page_addr] /\ Contents(a) \in Clean
          /\ flash[a] \in {FF, Contents(a)}
      BY <2>1, BufferedCells
    <3>2. new[a] = ProgramCell(flash[a], Contents(a)) BY <2>1, <3>1 DEF flash_range_program
    <3>3. ProgramCell(flash[a], Contents(a)) = Contents(a)
      <4>1. CASE flash[a] = FF BY <4>1 DEF ProgramCell
      <4>2. CASE flash[a] # FF /\ flash[a] = Contents(a) BY <4>2 DEF ProgramCell
      <4> QED BY <3>1, <4>1, <4>2
    <3> QED BY <2>1, <3>1, <3>2, <3>3
  <2>2. CASE a \notin X BY <1>1, <2>2 DEF flash_range_program
  <2> QED BY <2>1, <2>2
<1>3. new = [a \in Addr |-> new[a]] BY DEF flash_range_program
<1> HIDE DEF new
<1>4. new \in [Addr -> Cell] BY <1>2, <1>3 DEF Clean, Cell
<1> QED BY <1>2, <1>4 DEF new

\* flash_sync moves the buffered page to the chip and changes no cell of the
\* storage.
LEMMA SyncEffect ==
  ASSUME IInv, last_page_addr # 0, SyncBuffer
  PROVE  /\ flash' \in [Addr -> Cell] /\ last_page_addr' = 0
         /\ \A a \in Addr : /\ flash'[a] = Contents(a) /\ flash'[a] \in Clean
                            /\ Contents(a)' = Contents(a)
<1>1. flash' = flash_range_program(last_page_addr, PageAt(last_page_addr)) /\ last_page_addr' = 0
  BY DEF SyncBuffer
<1>2. PageAt(last_page_addr) \in SUBSET PageAt(last_page_addr) OBVIOUS
<1>3. /\ flash' \in [Addr -> Cell]
      /\ \A a \in Addr : /\ flash'[a] = IF a \in PageAt(last_page_addr) THEN Contents(a) ELSE flash[a]
                         /\ flash'[a] \in Clean
  BY <1>1, <1>2, ProgramEffect
<1>4. \A a \in Addr : a \notin PageAt(last_page_addr) => Contents(a) = flash[a]
  BY DEF Contents, Buffered
<1>5. \A a \in Addr : flash'[a] = Contents(a) BY <1>3, <1>4
<1>6. \A a \in Addr : Contents(a)' = flash'[a] BY <1>1 DEF Contents, Buffered
<1> QED BY <1>1, <1>3, <1>5, <1>6

\* One chunk: its cells take their new values, all others keep theirs.
LEMMA PageEffect ==
  ASSUME IInv, ProgramPage
  PROVE  /\ IsPage(last_page_addr') /\ flash_page_buf' \in [0 .. PageSize - 1 -> Cell \cup {Zero}]
         /\ \A i \in 0 .. PageSize - 1 : /\ flash_page_buf'[i] \in Clean
                                         /\ flash[last_page_addr' + i] \in {FF, flash_page_buf'[i]}
         /\ \A a \in Addr : Contents(a)' = IF a \in call.off .. call.off + Chunk - 1
                                           THEN mem[a] ELSE Contents(a)
<1> DEFINE p == PageOf(call.off)
<1>1. /\ call.src # <<>> /\ last_page_addr \in {0, p} /\ last_page_addr' = p
      /\ flash_page_buf' = FilledBuffer(p) /\ UNCHANGED <<flash, mem>>
      /\ \A a \in call.off .. call.off + Chunk - 1 : flash[a] = FF
  BY DEF ProgramPage, MayFill, Active
<1>2. call.off \in Addr BY <1>1 DEF IInv, CallInv
<1>3. IsPage(p) /\ call.off \in Nat BY <1>2, PageOfAddr
<1>4. /\ p \in Nat /\ p # 0 /\ PageAt(p) \subseteq Addr
      /\ \A i \in 0 .. PageSize - 1 : p + i \in PageAt(p)
  BY <1>3, PageInside
<1>5. /\ Chunk \in 1 .. Len(call.src) /\ Len(call.src) \in Nat
      /\ call.off .. call.off + Chunk - 1 \subseteq PageAt(p)
  BY <1>1, ChunkBounds DEF IInv
<1> HIDE DEF p
<1>6. \A a \in Addr : flash[a] \in Clean BY ChipClean DEF IInv
<1>7. ASSUME NEW a \in PageAt(p), a \notin call.off .. call.off + Chunk - 1
      PROVE  /\ flash_page_buf'[a - p] = Contents(a) /\ Contents(a) \in Clean
             /\ flash[a] \in {FF, Contents(a)}
  <2>1. a - p \in 0 .. PageSize - 1 /\ p + (a - p) = a BY <1>4, Sizes DEF PageAt
  <2>2. flash_page_buf'[a - p] = IF last_page_addr = p THEN flash_page_buf[a - p] ELSE flash[a]
    BY <1>1, <1>7, <2>1 DEF FilledBuffer
  <2>3. CASE last_page_addr = p BY <1>4, <2>2, <2>3, BufferedCells
  <2>4. CASE last_page_addr = 0
    BY <1>4, <1>6, <2>2, <2>4 DEF Contents, Buffered
  <2> QED BY <1>1, <2>3, <2>4
<1>8. ASSUME NEW a \in call.off .. call.off + Chunk - 1
      PROVE  /\ flash_page_buf'[a - p] = mem[a] /\ mem[a] \in Clean /\ flash[a] = FF
  <2>1. a \in PageAt(p) /\ flash[a] = FF BY <1>1, <1>5
  <2>2. a - p \in 0 .. PageSize - 1 /\ p + (a - p) = a BY <1>4, <2>1, Sizes DEF PageAt
  <2>3. flash_page_buf'[a - p] = call.src[a - call.off + 1]
    <3> DEFINE i == a - p
    <3>1. i \in 0 .. PageSize - 1 /\ p + i = a BY <2>2
    <3> HIDE DEF i
    <3>2. flash_page_buf'[i] = call.src[p + i - call.off + 1] BY <1>1, <3>1 DEF FilledBuffer
    <3>3. p + i - call.off + 1 = a - call.off + 1 BY <1>3, <1>4, <1>5, <3>1, Sizes
    <3>4. flash_page_buf'[i] = call.src[a - call.off + 1] BY <3>2, <3>3
    <3> QED BY <3>4 DEF i
  <2>4. /\ a - call.off + 1 \in 1 .. Len(call.src) /\ call.off + (a - call.off + 1) - 1 = a
    BY <1>3, <1>5
  <2>5. mem[a] = call.src[a - call.off + 1] BY <1>1, <2>4 DEF IInv, CallInv
  <2>6. call.src[a - call.off + 1] \in Value BY <2>4 DEF IInv, TypeOK
  <2> QED BY <2>1, <2>3, <2>5, <2>6 DEF Clean
<1>9. ASSUME NEW a \in PageAt(p) PROVE Buffered(a)' /\ Contents(a)' = flash_page_buf'[a - p]
  BY <1>1, <1>4, <1>9 DEF Buffered, Contents
<1>10. ASSUME NEW a \in Addr, a \notin PageAt(p) PROVE Contents(a)' = Contents(a)
  BY <1>1, <1>4, <1>10 DEF Buffered, Contents
<1>11. ASSUME NEW i \in 0 .. PageSize - 1
       PROVE  flash_page_buf'[i] \in Clean /\ flash[p + i] \in {FF, flash_page_buf'[i]}
  <2>1. p + i \in PageAt(p) /\ (p + i) - p = i BY <1>4, Sizes
  <2> QED BY <1>7, <1>8, <2>1
<1>12. flash_page_buf' \in [0 .. PageSize - 1 -> Cell \cup {Zero}]
  <2>1. flash_page_buf' = [i \in 0 .. PageSize - 1 |-> flash_page_buf'[i]] BY <1>1 DEF FilledBuffer
  <2> QED BY <1>11, <2>1 DEF Clean, Cell
<1>13. \A a \in Addr : Contents(a)' = IF a \in call.off .. call.off + Chunk - 1
                                      THEN mem[a] ELSE Contents(a)
  <2> SUFFICES ASSUME NEW a \in Addr
               PROVE  Contents(a)' = IF a \in call.off .. call.off + Chunk - 1
                                     THEN mem[a] ELSE Contents(a)
    OBVIOUS
  <2>1. CASE a \in call.off .. call.off + Chunk - 1 BY <1>5, <1>8, <1>9, <2>1
  <2>2. CASE a \notin call.off .. call.off + Chunk - 1 /\ a \in PageAt(p) BY <1>7, <1>9, <2>2
  <2>3. CASE a \notin PageAt(p) BY <1>5, <1>10, <2>3
  <2> QED BY <2>1, <2>2, <2>3
<1> QED BY <1>1, <1>3, <1>11, <1>12, <1>13

\* Erasing a sector whose pages are not buffered.
LEMMA EraseEffect ==
  ASSUME IInv, NEW k \in Sectors, SyncedBeforeErase(k), NEW a \in Sector(k)
  PROVE  ~Buffered(a)
<1>1. last_page_addr # 0 => IsPage(last_page_addr) BY DEF IInv, TypeOK, IsPage
<1> QED BY <1>1, SectorPage DEF Buffered, SyncedBeforeErase

\* After a reset the storage is what the chip holds.
LEMMA ResetEffect ==
  ASSUME NEW c \in [Addr -> Cell], \A a \in Addr : c[a] \in Clean, Reset(c)
  PROVE  IInv'
<1>1. /\ flash' = c /\ mem' = c /\ last_page_addr' = 0 /\ fault' = "none"
      /\ flash_page_buf' = [i \in 0 .. PageSize - 1 |-> Zero] /\ call' = NoCall
  BY DEF Reset
<1>2. call'.off = 0 /\ call'.src = <<>> BY <1>1 DEF NoCall
<1>3. TypeOK'
  <2>1. flash_page_buf' \in [0 .. PageSize - 1 -> Cell \cup {Zero}] BY <1>1
  <2> QED BY <1>1, <1>2, <2>1 DEF TypeOK
<1>4. NoGarbage' BY <1>1, Sizes DEF NoGarbage, Clean, FF, Garbage
<1>5. BufInv' /\ CallInv' BY <1>1, <1>2 DEF BufInv, CallInv
<1>6. ReadBack' BY <1>1 DEF ReadBack, Contents, Buffered
<1> QED BY <1>3, <1>4, <1>5, <1>6 DEF IInv

-----------------------------------------------------------------------------
(* Every step preserves the invariant. *)

LEMMA InitEstablishes == Init => IInv
<1> SUFFICES ASSUME Init PROVE IInv OBVIOUS
<1>1. /\ flash = [a \in Addr |-> FF] /\ mem = flash /\ last_page_addr = 0 /\ fault = "none"
      /\ flash_page_buf = [i \in 0 .. PageSize - 1 |-> Zero] /\ call = NoCall
  BY DEF Init
<1>2. call.off = 0 /\ call.src = <<>> BY <1>1 DEF NoCall
<1>3. TypeOK
  <2>1. flash \in [Addr -> Cell] BY <1>1 DEF Cell
  <2>2. flash_page_buf \in [0 .. PageSize - 1 -> Cell \cup {Zero}] BY <1>1
  <2> QED BY <1>1, <1>2, <2>1, <2>2 DEF TypeOK
<1>4. NoGarbage BY <1>1 DEF NoGarbage, FF, Garbage
<1>5. BufInv /\ CallInv BY <1>1, <1>2 DEF BufInv, CallInv
<1>6. ReadBack BY <1>1 DEF ReadBack, Contents, Buffered
<1> QED BY <1>3, <1>4, <1>5, <1>6 DEF IInv

\* The page that leaves the buffer, by flash_sync or for another page.
LEMMA SyncKeeps ==
  ASSUME IInv, last_page_addr # 0, SyncBuffer, UNCHANGED <<call, mem, fault>>
  PROVE  IInv'
<1>1. /\ flash' \in [Addr -> Cell] /\ last_page_addr' = 0 /\ flash_page_buf' = flash_page_buf
      /\ \A a \in Addr : /\ flash'[a] = Contents(a) /\ flash'[a] \in Clean
                         /\ Contents(a)' = Contents(a)
  BY SyncEffect DEF SyncBuffer
<1>2. call' = call /\ mem' = mem /\ fault' = fault OBVIOUS
<1>3. TypeOK' BY <1>1, <1>2 DEF IInv, TypeOK
<1>4. NoGarbage' BY <1>1, Sizes DEF NoGarbage, Clean, FF, Garbage
<1>5. BufInv' BY <1>1 DEF BufInv
<1>6. CallInv' BY <1>2 DEF IInv, CallInv
<1>7. ReadBack'
  <2>1. Rest' = Rest BY <1>2 DEF Rest
  <2> QED BY <1>1, <1>2, <2>1 DEF IInv, ReadBack
<1> QED BY <1>3, <1>4, <1>5, <1>6, <1>7 DEF IInv

\* A request: the view changes in the range that is now left to write.
LEMMA RequestKeeps ==
  ASSUME IInv, NEW o \in Addr, NEW s \in Requests, flash_program(o, s)
  PROVE  IInv'
<1>1. /\ call.src = <<>> /\ o + Len(s) - 1 \in Addr /\ call' = [off |-> o, src |-> s]
      /\ mem' = [a \in Addr |-> IF a \in o .. o + Len(s) - 1 THEN s[a - o + 1] ELSE mem[a]]
      /\ flash' = flash /\ last_page_addr' = last_page_addr /\ flash_page_buf' = flash_page_buf
      /\ fault' = fault
  BY DEF flash_program, Idle
<1>2. call'.off = o /\ call'.src = s BY <1>1
<1>3. s \in Seq(Value) /\ Len(s) \in Nat
  <2>1. PICK n \in 1 .. MaxLen : s \in [1 .. n -> Value] BY DEF Requests
  <2>2. n \in Nat BY <2>1, Sizes
  <2> QED BY <2>1, <2>2
<1>4. o \in Nat /\ Addr \subseteq Nat BY PageOfAddr
<1>5. ASSUME NEW a \in Addr, a \in o .. o + Len(s) - 1
      PROVE  mem'[a] = s[a - o + 1] /\ s[a - o + 1] \in Value
  <2>1. a - o + 1 \in 1 .. Len(s) BY <1>3, <1>4, <1>5
  <2> QED BY <1>1, <1>3, <1>5, <2>1
<1>6. ASSUME NEW a \in Addr, a \notin o .. o + Len(s) - 1 PROVE mem'[a] = mem[a]
  BY <1>1, <1>6
<1>7. TypeOK'
  <2>1. mem' = [a \in Addr |-> mem'[a]] BY <1>1
  <2>2. \A a \in Addr : mem'[a] \in Cell BY <1>5, <1>6 DEF IInv, TypeOK, Cell
  <2>3. mem' \in [Addr -> Cell] BY <2>1, <2>2
  <2> QED BY <1>1, <1>2, <1>3, <1>4, <2>3 DEF IInv, TypeOK
<1>8. NoGarbage' /\ BufInv' BY <1>1 DEF IInv, NoGarbage, BufInv
<1>9. CallInv'
  <2>1. ASSUME NEW j \in 1 .. Len(s) PROVE mem'[o + j - 1] = s[j]
    <3> DEFINE a == o + j - 1
    <3>1. a \in o .. o + Len(s) - 1 /\ a - o + 1 = j BY <1>3, <1>4
    <3>2. a \in Addr BY <1>1, <1>3, <1>4, <3>1, Sizes DEF Addr
    <3> HIDE DEF a
    <3>3. mem'[a] = s[j] BY <1>5, <3>1, <3>2
    <3> QED BY <3>3 DEF a
  <2> QED BY <1>1, <1>2, <2>1 DEF CallInv
<1>10. ReadBack'
  <2>1. Rest' = o .. o + Len(s) - 1 BY <1>2 DEF Rest
  <2>2. Rest = {}
    <3>1. Len(call.src) = 0 /\ call.off \in Nat BY <1>1 DEF IInv, TypeOK
    <3> QED BY <3>1 DEF Rest
  <2>3. \A a \in Addr : Contents(a)' = Contents(a) BY <1>1 DEF Contents, Buffered
  <2> QED BY <1>6, <2>1, <2>2, <2>3 DEF IInv, ReadBack
<1> QED BY <1>7, <1>8, <1>9, <1>10 DEF IInv

\* What is left of a call after one chunk of it.
LEMMA RestOfCall ==
  ASSUME IInv, ProgramPage
  PROVE  /\ call'.off = call.off + Chunk /\ call'.src \in Seq(Value)
         /\ Len(call'.src) = Len(call.src) - Chunk
         /\ \A j \in 1 .. Len(call'.src) : call'.src[j] = call.src[Chunk + j]
<1>1. /\ call.src # <<>>
      /\ call' = [off |-> call.off + Chunk, src |-> SubSeq(call.src, Chunk + 1, Len(call.src))]
  BY DEF ProgramPage, MayFill, Active
<1>2. Chunk \in 1 .. Len(call.src) /\ Len(call.src) \in Nat BY <1>1, ChunkBounds DEF IInv
<1>3. call.src \in Seq(Value) BY DEF IInv, TypeOK
<1>4. call'.off = call.off + Chunk /\ call'.src = SubSeq(call.src, Chunk + 1, Len(call.src)) BY <1>1
<1>5. \A x \in 1 .. Len(call.src) : call.src[x] \in Value BY <1>3
<1>6. /\ call'.src \in Seq(Value) /\ Len(call'.src) = Len(call.src) - Chunk
  BY <1>2, <1>3, <1>4, <1>5
<1>7. ASSUME NEW j \in 1 .. Len(call'.src) PROVE call'.src[j] = call.src[Chunk + j]
  BY <1>2, <1>3, <1>4, <1>6
<1> QED BY <1>4, <1>6, <1>7

LEMMA ChunkKeeps ==
  ASSUME IInv, ProgramPage
  PROVE  IInv'
<1> DEFINE n == Len(call.src)
<1>1. call.src # <<>> /\ flash' = flash /\ mem' = mem /\ fault' = fault
  BY DEF ProgramPage, MayFill, Active
<1>2. Chunk \in 1 .. n /\ n \in Nat BY <1>1, ChunkBounds DEF IInv
<1>3. call.off \in Addr /\ call.off + n - 1 \in Addr /\ call.off \in Nat
  BY <1>1, PageOfAddr DEF IInv, CallInv
<1>4. /\ call'.off = call.off + Chunk /\ call'.src \in Seq(Value) /\ Len(call'.src) = n - Chunk
      /\ \A j \in 1 .. Len(call'.src) : call'.src[j] = call.src[Chunk + j]
  BY RestOfCall
<1>5. /\ IsPage(last_page_addr') /\ flash_page_buf' \in [0 .. PageSize - 1 -> Cell \cup {Zero}]
      /\ \A i \in 0 .. PageSize - 1 : /\ flash_page_buf'[i] \in Clean
                                      /\ flash[last_page_addr' + i] \in {FF, flash_page_buf'[i]}
      /\ \A a \in Addr : Contents(a)' = IF a \in call.off .. call.off + Chunk - 1
                                        THEN mem[a] ELSE Contents(a)
  BY PageEffect
<1>6. TypeOK'
  <2>1. call'.off \in Nat BY <1>2, <1>3, <1>4
  <2> QED BY <1>1, <1>4, <1>5, <2>1 DEF IInv, TypeOK, IsPage
<1>7. NoGarbage' BY <1>1 DEF IInv, NoGarbage
<1>8. BufInv' BY <1>1, <1>5 DEF BufInv
<1>9. call'.off + Len(call'.src) - 1 = call.off + n - 1 BY <1>2, <1>3, <1>4
<1>10. \A j \in 1 .. n - Chunk : /\ Chunk + j \in 1 .. n
                                 /\ call.off + (Chunk + j) - 1 = (call.off + Chunk) + j - 1
  BY <1>2, <1>3
<1>11. CallInv'
  <2> SUFFICES ASSUME call'.src # <<>>
               PROVE  /\ call'.off \in Addr /\ call'.off + Len(call'.src) - 1 \in Addr
                      /\ \A j \in 1 .. Len(call'.src) : mem[call'.off + j - 1] = call'.src[j]
    BY <1>1 DEF CallInv
  <2>1. Len(call'.src) > 0 BY <1>4
  <2>2. call'.off + Len(call'.src) - 1 = call.off + n - 1 BY <1>9
  <2>3. call'.off \in Addr BY <1>2, <1>3, <1>4, <2>1, Sizes DEF Addr
  <2>4. ASSUME NEW j \in 1 .. Len(call'.src) PROVE mem[call'.off + j - 1] = call'.src[j]
    <3>1. Chunk + j \in 1 .. n /\ call.off + (Chunk + j) - 1 = call'.off + j - 1
      BY <1>4, <1>10
    <3>2. mem[call.off + (Chunk + j) - 1] = call.src[Chunk + j] BY <1>1, <3>1 DEF IInv, CallInv
    <3> QED BY <1>4, <3>1, <3>2
  <2> QED BY <1>3, <2>2, <2>3, <2>4
<1>12. ReadBack'
  <2>1. Rest = call.off .. call.off + n - 1 BY DEF Rest
  <2>2. Rest' = call.off + Chunk .. call.off + n - 1
    <3>1. Rest' = call'.off .. call'.off + Len(call'.src) - 1 BY DEF Rest
    <3> QED BY <1>4, <1>9, <3>1
  <2>3. ASSUME NEW a \in Addr \ Rest' PROVE mem[a] = Contents(a)'
    <3>1. CASE a \in call.off .. call.off + Chunk - 1 BY <1>5, <3>1
    <3>2. CASE a \notin call.off .. call.off + Chunk - 1
      <4>1. a \in Nat BY PageOfAddr
      <4>2. a \notin Rest BY <1>2, <1>3, <2>1, <2>2, <2>3, <3>2, <4>1
      <4>3. mem[a] = Contents(a) BY <4>2 DEF IInv, ReadBack
      <4> QED BY <1>5, <3>2, <4>3
    <3> QED BY <3>1, <3>2
  <2> QED BY <1>1, <2>3 DEF ReadBack
<1> QED BY <1>6, <1>7, <1>8, <1>11, <1>12 DEF IInv

\* What a cell of the storage contains after an erasure.
LEMMA EraseContents ==
  ASSUME IInv, NEW k \in Sectors, flash_erase(k), NEW a \in Addr
  PROVE  Contents(a)' = IF a \in Sector(k) THEN FF ELSE Contents(a)
<1>1. /\ SyncedBeforeErase(k) /\ flash' = flash_range_erase(Sector(k))
      /\ last_page_addr' = last_page_addr /\ flash_page_buf' = flash_page_buf
  BY DEF flash_erase
<1>2. Buffered(a)' = Buffered(a) BY <1>1 DEF Buffered
<1>3. flash'[a] = IF a \in Sector(k) THEN FF ELSE flash[a] BY <1>1 DEF flash_range_erase
<1>4. CASE a \in Sector(k)
  <2>1. ~Buffered(a) BY <1>1, <1>4, EraseEffect
  <2>2. Contents(a)' = flash'[a] BY <1>2, <2>1 DEF Contents
  <2> QED BY <1>3, <1>4, <2>2
<1>5. CASE a \notin Sector(k) BY <1>1, <1>2, <1>3, <1>5 DEF Contents
<1> QED BY <1>4, <1>5

LEMMA EraseKeeps ==
  ASSUME IInv, NEW k \in Sectors, flash_erase(k)
  PROVE  IInv'
<1>1. /\ call.src = <<>> /\ SyncedBeforeErase(k) /\ flash' = flash_range_erase(Sector(k))
      /\ mem' = [a \in Addr |-> IF a \in Sector(k) THEN FF ELSE mem[a]]
      /\ last_page_addr' = last_page_addr /\ flash_page_buf' = flash_page_buf
      /\ call' = call /\ fault' = fault
  BY DEF flash_erase, Idle
<1>2. \A a \in Addr : flash'[a] = IF a \in Sector(k) THEN FF ELSE flash[a]
  BY <1>1 DEF flash_range_erase
<1>3. TypeOK'
  <2>1. flash' \in [Addr -> Cell] BY <1>1 DEF IInv, TypeOK, Cell, flash_range_erase
  <2>2. mem' \in [Addr -> Cell] BY <1>1 DEF IInv, TypeOK, Cell
  <2> QED BY <1>1, <2>1, <2>2 DEF IInv, TypeOK
<1>4. NoGarbage' BY <1>2 DEF IInv, NoGarbage, FF, Garbage
<1>5. BufInv'
  <2> SUFFICES ASSUME last_page_addr # 0, NEW i \in 0 .. PageSize - 1
               PROVE  /\ flash_page_buf[i] \in Clean
                      /\ flash'[last_page_addr + i] \in {FF, flash_page_buf[i]}
    BY <1>1 DEF BufInv
  <2>1. IsPage(last_page_addr) BY DEF IInv, TypeOK, IsPage
  <2>2. last_page_addr + i \in Addr BY <2>1, PageInside
  <2> QED BY <1>2, <2>2 DEF IInv, BufInv
<1>6. CallInv' BY <1>1 DEF CallInv
<1>7. ReadBack'
  <2>1. Rest' = Rest BY <1>1 DEF Rest
  <2>2. ASSUME NEW a \in Addr \ Rest PROVE mem'[a] = Contents(a)'
    <3>1. mem[a] = Contents(a) BY DEF IInv, ReadBack
    <3> QED BY <1>1, <3>1, EraseContents
  <2> QED BY <2>1, <2>2 DEF ReadBack
<1> QED BY <1>3, <1>4, <1>5, <1>6, <1>7 DEF IInv

\* The chip after a power failure, whatever was in progress.
LEMMA PowerLossKeeps ==
  ASSUME IInv, PowerLoss \/ PowerLossInSync \/ \E k \in Sectors : PowerLossInErase(k)
  PROVE  IInv'
<1>1. CASE PowerLoss BY <1>1, ChipClean, ResetEffect DEF IInv, PowerLoss
<1>2. CASE PowerLossInSync
  <2>1. PICK X \in SUBSET PageAt(last_page_addr) :
          last_page_addr # 0 /\ Reset(flash_range_program(last_page_addr, X))
    BY <1>2 DEF PowerLossInSync
  <2>2. /\ flash_range_program(last_page_addr, X) \in [Addr -> Cell]
        /\ \A a \in Addr : flash_range_program(last_page_addr, X)[a] \in Clean
    BY <2>1, ProgramEffect
  <2> QED BY <2>1, <2>2, ResetEffect
<1>3. ASSUME NEW k \in Sectors, PowerLossInErase(k) PROVE IInv'
  <2>1. PICK X \in SUBSET Sector(k) : Reset(flash_range_erase(X)) BY <1>3 DEF PowerLossInErase
  <2>2. \A a \in Addr : flash[a] \in Clean BY ChipClean DEF IInv
  <2>3. \A a \in Addr : flash_range_erase(X)[a] \in Clean
    BY <2>2 DEF flash_range_erase, Clean
  <2>4. flash_range_erase(X) \in [Addr -> Cell]
    BY <2>2 DEF flash_range_erase, Clean, Cell
  <2> QED BY <2>1, <2>3, <2>4, ResetEffect
<1> QED BY <1>1, <1>2, <1>3

\* A failed assertion touches nothing but fault.
LEMMA FaultKeeps ==
  ASSUME IInv, fault' \in {"none", "len", "programmed"},
         UNCHANGED <<flash, last_page_addr, flash_page_buf, call, mem>>
  PROVE  IInv'
<1>1. TypeOK' BY DEF IInv, TypeOK
<1>2. NoGarbage' /\ BufInv' BY DEF IInv, NoGarbage, BufInv
<1>3. CallInv' BY DEF IInv, CallInv
<1>4. ReadBack' BY DEF IInv, ReadBack, Rest, Contents, Buffered
<1> QED BY <1>1, <1>2, <1>3, <1>4 DEF IInv

LEMMA StepKeeps == IInv /\ [Next]_vars => IInv'
<1> SUFFICES ASSUME IInv, [Next]_vars PROVE IInv' OBVIOUS
<1>1. ASSUME NEW o \in Addr, NEW s \in Requests, flash_program(o, s) PROVE IInv'
  BY <1>1, RequestKeeps
<1>2. CASE flash_sync BY <1>2, SyncKeeps DEF flash_sync
<1>3. CASE SwitchPage BY <1>3, SyncKeeps DEF SwitchPage, MustSwitch
<1>4. CASE ProgramPage BY <1>4, ChunkKeeps
<1>5. CASE AssertLen BY <1>5, FaultKeeps DEF AssertLen
<1>6. CASE AssertErased BY <1>6, FaultKeeps DEF AssertErased
<1>7. ASSUME NEW k \in Sectors, flash_erase(k) PROVE IInv' BY <1>7, EraseKeeps
<1>8. CASE PowerLoss \/ PowerLossInSync \/ \E k \in Sectors : PowerLossInErase(k)
  BY <1>8, PowerLossKeeps
<1>9. CASE UNCHANGED vars
  <2>1. fault' \in {"none", "len", "programmed"} BY <1>9 DEF vars, IInv, TypeOK
  <2> QED BY <1>9, <2>1, FaultKeeps DEF vars
<1> QED BY <1>1, <1>2, <1>3, <1>4, <1>5, <1>6, <1>7, <1>8, <1>9 DEF Next, Driver

-----------------------------------------------------------------------------
(* The theorems. *)

\* The invariant holds in every reachable state of the storage driver
\* (flash.c:9-63), power failures included.
THEOREM FlashInvariance == Spec => []IInv
  BY InitEstablishes, StepKeeps, PTL DEF Spec

\* The types hold, and no cell is programmed over another value, whatever is
\* repeated after a power failure (flash.c:33).
THEOREM ContentsAreOK == Spec => []ContentsOK
<1>1. IInv => ContentsOK BY DEF IInv, ContentsOK
<1> QED BY <1>1, FlashInvariance, PTL

\* The chip with the buffered page laid over it is what the calls asked for
\* (flash.c:22-35, 44-52).
THEOREM ReadsBack == Spec => []ReadBack
<1>1. IInv => ReadBack BY DEF IInv
<1> QED BY <1>1, FlashInvariance, PTL

\* The cells of the buffered page have that page.
LEMMA BufferedPage ==
  ASSUME IInv, last_page_addr # 0, NEW a \in PageAt(last_page_addr)
  PROVE  PageOf(a) = last_page_addr
<1>1. IsPage(last_page_addr) BY DEF IInv, TypeOK, IsPage
<1>2. PICK i \in 0 .. PageSize - 1 : a = last_page_addr + i
  <2>1. a - last_page_addr \in 0 .. PageSize - 1 /\ a = last_page_addr + (a - last_page_addr)
    BY <1>1, PageInside, Sizes DEF PageAt
  <2> QED BY <2>1
<1>3. PICK j \in Nat : last_page_addr = j * PageSize
  <2>1. last_page_addr \in Nat /\ last_page_addr % PageSize = 0 BY <1>1, PageInside DEF IsPage
  <2>2. PageSize \in Nat \ {0} BY Sizes
  <2> QED BY <2>1, <2>2, Quotient
<1>4. a % PageSize = i BY <1>2, <1>3, Sizes
<1> QED BY <1>1, <1>2, <1>4, PageInside, Sizes DEF PageOf

\* Which cells of the chip a step may change: those of the buffered page, or
\* any, if it erases them.
LEMMA ChipChange ==
  ASSUME IInv, [Next]_vars, NEW a \in Addr, flash'[a] # flash[a]
  PROVE  Buffered(a) \/ flash'[a] = FF
<1>1. CASE flash_sync \/ SwitchPage
  <2>1. last_page_addr # 0 /\ flash' = flash_range_program(last_page_addr, PageAt(last_page_addr))
    BY <1>1 DEF flash_sync, SwitchPage, MustSwitch, SyncBuffer
  <2> QED BY <2>1 DEF flash_range_program, Buffered
<1>2. CASE PowerLossInSync
  <2>1. PICK X \in SUBSET PageAt(last_page_addr) :
          last_page_addr # 0 /\ flash' = flash_range_program(last_page_addr, X)
    BY <1>2 DEF PowerLossInSync, Reset
  <2> QED BY <2>1 DEF flash_range_program, Buffered
<1>3. ASSUME NEW k \in Sectors, flash_erase(k) \/ PowerLossInErase(k) PROVE flash'[a] = FF
  <2>1. PICK X : flash' = flash_range_erase(X) BY <1>3 DEF flash_erase, PowerLossInErase, Reset
  <2> QED BY <2>1 DEF flash_range_erase
<1>4. ASSUME UNCHANGED flash PROVE FALSE BY <1>4
<1>5. ASSUME NEW o \in Addr, NEW s \in Requests, flash_program(o, s) PROVE FALSE
  BY <1>4, <1>5 DEF flash_program
<1>6. CASE ProgramPage \/ AssertLen \/ AssertErased \/ PowerLoss \/ UNCHANGED vars
  BY <1>4, <1>6 DEF ProgramPage, AssertLen, AssertErased, PowerLoss, Reset, vars
<1> QED BY <1>1, <1>2, <1>3, <1>5, <1>6 DEF Next, Driver

\* When a cell is programmed, everything asked for on other pages is on the
\* chip already; an erasure overtakes the buffered page only (flash.c:9-36, 55-63).
THEOREM PagesReachChipInOrder == Spec => PagesInOrder
<1>1. IInv /\ [Next]_vars
      => [\A a, b \in Addr :
            flash'[a] # flash[a] /\ b \notin Rest /\ PageOf(b) # PageOf(a)
              => flash[b] = mem[b] \/ (flash'[a] = FF /\ Buffered(b))]_vars
  <2> SUFFICES ASSUME IInv, [Next]_vars, NEW a \in Addr, NEW b \in Addr,
                      flash'[a] # flash[a], b \notin Rest, PageOf(b) # PageOf(a)
               PROVE  flash[b] = mem[b] \/ (flash'[a] = FF /\ Buffered(b))
    OBVIOUS
  <2>1. CASE ~Buffered(b) BY <2>1 DEF IInv, ReadBack, Contents
  <2>2. CASE Buffered(b)
    <3>1. ~Buffered(a) BY <2>2, BufferedPage DEF Buffered
    <3> QED BY <2>2, <3>1, ChipChange
  <2> QED BY <2>1, <2>2
<1> QED BY <1>1, FlashInvariance, PTL DEF Spec, PagesInOrder

\* Every step of the loop of flash_program leaves less to do (flash.c:44-52).
THEOREM ProgramTerminates == Spec => ProgramEnds
<1>1. IInv /\ [Next]_vars => [Driver => Work' < Work]_vars
  <2> SUFFICES ASSUME IInv, Driver PROVE Work' < Work OBVIOUS
  <2>1. Active BY DEF Driver, SwitchPage, MustSwitch, ProgramPage, MayFill, AssertLen, AssertErased
  <2>2. Len(call.src) \in Nat /\ Len(call.src) > 0 BY <2>1 DEF Active, IInv, TypeOK
  <2>3. CASE SwitchPage
    <3>1. MustSwitch /\ call' = call /\ fault' = fault /\ last_page_addr' = 0
      BY <2>3 DEF SwitchPage, SyncBuffer
    <3>2. Work = 2 * Len(call.src) + 1 BY <2>1, <3>1 DEF Work
    <3>3. Active' /\ ~MustSwitch' BY <2>1, <3>1 DEF Active, MustSwitch
    <3>4. Work' = 2 * Len(call.src) BY <2>2, <3>1, <3>3 DEF Work
    <3> QED BY <2>2, <3>2, <3>4
  <2>4. CASE ProgramPage
    <3>1. ~MustSwitch BY <2>4 DEF ProgramPage, MayFill, MustSwitch
    <3>2. Work = 2 * Len(call.src) BY <2>1, <2>2, <3>1 DEF Work
    <3>3. Chunk \in 1 .. Len(call.src) BY <2>1, ChunkBounds DEF Active, IInv
    <3>4. Len(call'.src) = Len(call.src) - Chunk BY <2>4, RestOfCall
    <3>5. Work' \in {0, 2 * Len(call'.src), 2 * Len(call'.src) + 1}
      <4>1. Len(call'.src) \in Nat BY <2>2, <3>3, <3>4
      <4>2. CASE ~Active' BY <4>2 DEF Work
      <4>3. CASE Active' /\ MustSwitch' BY <4>3 DEF Work
      <4>4. CASE Active' /\ ~MustSwitch' BY <4>1, <4>4 DEF Work
      <4> QED BY <4>2, <4>3, <4>4
    <3> QED BY <2>2, <3>2, <3>3, <3>4, <3>5
  <2>5. CASE AssertLen \/ AssertErased
    <3>1. ~Active' BY <2>5 DEF AssertLen, AssertErased, Active
    <3>2. Work' = 0 BY <3>1 DEF Work
    <3>3. Work \in {2 * Len(call.src), 2 * Len(call.src) + 1}
      <4>1. CASE MustSwitch BY <2>1, <4>1 DEF Work
      <4>2. CASE ~MustSwitch BY <2>1, <2>2, <4>2 DEF Work
      <4> QED BY <4>1, <4>2
    <3> QED BY <2>2, <3>2, <3>3
  <2> QED BY <2>3, <2>4, <2>5 DEF Driver
<1> QED BY <1>1, FlashInvariance, PTL DEF Spec, ProgramEnds

-----------------------------------------------------------------------------
(* The driver implements Store. *)

Cache == [a \in Addr |-> Contents(a)]

\* After a reset the three memories are one.
LEMMA ResetRefines ==
  ASSUME NEW c \in [Addr -> Cell], Reset(c)
  PROVE  mem' = c /\ flash' = c /\ Cache' = c
<1>1. mem' = c /\ flash' = c /\ last_page_addr' = 0 BY DEF Reset
<1>2. \A a \in Addr : Contents(a)' = c[a] BY <1>1 DEF Contents, Buffered
<1>3. Cache' = [a \in Addr |-> c[a]] BY <1>2 DEF Cache
<1> QED BY <1>1, <1>3

LEMMA InitRefines == Init => S!Init
<1> SUFFICES ASSUME Init PROVE S!Init OBVIOUS
<1>1. mem = flash /\ last_page_addr = 0 /\ flash = [a \in Addr |-> FF] BY DEF Init
<1>2. \A a \in Addr : Contents(a) = FF BY <1>1 DEF Contents, Buffered
<1>3. [a \in Addr |-> Contents(a)] = flash BY <1>1, <1>2
<1> QED BY <1>1, <1>3 DEF S!Init

\* The write of the buffered page is invisible to a reader of the storage.
LEMMA SyncRefines ==
  ASSUME IInv, last_page_addr # 0, SyncBuffer, UNCHANGED mem
  PROVE  S!Next
<1>1. \A a \in Addr : flash'[a] = Contents(a) /\ Contents(a)' = Contents(a) BY SyncEffect
<1>2. Cache' = Cache BY <1>1 DEF Cache
<1>3. \A a \in Addr : Cache[a] = Contents(a) BY DEF Cache
<1>4. S!WriteBehind BY <1>1, <1>2, <1>3 DEF S!WriteBehind, S!Moves, Cache
<1> QED BY <1>4 DEF S!Next

LEMMA ChunkRefines == ASSUME IInv, ProgramPage PROVE S!Next
<1>1. mem' = mem /\ flash' = flash BY DEF ProgramPage
<1>2. \A a \in Addr : Contents(a)' \in {Contents(a), mem[a]} BY PageEffect
<1>3. \A a \in Addr : Cache'[a] = Contents(a)' BY DEF Cache
<1>4. \A a \in Addr : Cache[a] = Contents(a) BY DEF Cache
<1>5. \A a \in Addr : Cache'[a] \in {Cache[a], mem[a]} BY <1>2, <1>3, <1>4
<1>6. S!Accept BY <1>1, <1>5 DEF S!Accept, S!Moves, Cache
<1> QED BY <1>6 DEF S!Next

LEMMA EraseRefines == ASSUME IInv, NEW k \in Sectors, flash_erase(k) PROVE S!Next
<1>1. /\ flash' = flash_range_erase(Sector(k))
      /\ mem' = [a \in Addr |-> IF a \in Sector(k) THEN FF ELSE mem[a]]
  BY DEF flash_erase
<1>2. \A a \in Addr : Cache'[a] = IF a \in Sector(k) THEN FF ELSE Cache[a]
  <2>1. \A a \in Addr : Cache'[a] = Contents(a)' /\ Cache[a] = Contents(a) BY DEF Cache
  <2> QED BY <2>1, EraseContents
<1>3. \A a \in Addr : flash'[a] = IF a \in Sector(k) THEN FF ELSE flash[a]
  BY <1>1 DEF flash_range_erase
<1>4. ASSUME NEW a \in Addr
      PROVE  \/ mem'[a] = mem[a] /\ Cache'[a] = Cache[a] /\ flash'[a] = flash[a]
             \/ {mem'[a], Cache'[a], flash'[a]} = {FF}
  BY <1>1, <1>2, <1>3
<1>5. S!Erase BY <1>4 DEF S!Erase, Cache
<1> QED BY <1>5 DEF S!Next

LEMMA PowerLossRefines ==
  ASSUME IInv, PowerLoss \/ PowerLossInSync \/ \E k \in Sectors : PowerLossInErase(k)
  PROVE  S!Next
<1>1. \A a \in Addr : Cache[a] = Contents(a) BY DEF Cache
<1>2. flash \in [Addr -> Cell] BY DEF IInv, TypeOK
<1>3. CASE PowerLoss
  <2>1. mem' = flash /\ flash' = flash /\ Cache' = flash BY <1>2, <1>3, ResetRefines DEF PowerLoss
  <2> QED BY <2>1 DEF S!Next, S!PowerFails, S!Moves, Cache
<1>4. CASE PowerLossInSync
  <2>1. PICK X \in SUBSET PageAt(last_page_addr) :
          last_page_addr # 0 /\ Reset(flash_range_program(last_page_addr, X))
    BY <1>4 DEF PowerLossInSync
  <2> DEFINE c == flash_range_program(last_page_addr, X)
  <2>2. c \in [Addr -> Cell] /\ \A a \in Addr : c[a] = IF a \in X THEN Contents(a) ELSE flash[a]
    BY <2>1, ProgramEffect
  <2>3. mem' = c /\ flash' = c /\ Cache' = c BY <2>1, <2>2, ResetRefines
  <2> HIDE DEF c
  <2>4. \A a \in Addr : flash'[a] \in {flash[a], Cache[a]} BY <1>1, <2>2, <2>3
  <2> QED BY <2>3, <2>4 DEF S!Next, S!PowerFails, S!Moves, Cache
<1>5. ASSUME NEW k \in Sectors, PowerLossInErase(k) PROVE S!Next
  <2>1. PICK X \in SUBSET Sector(k) : Reset(flash_range_erase(X)) BY <1>5 DEF PowerLossInErase
  <2> DEFINE c == flash_range_erase(X)
  <2>2. c \in [Addr -> Cell] /\ \A a \in Addr : c[a] \in {flash[a], FF}
    BY <1>2 DEF flash_range_erase, Cell
  <2>3. mem' = c /\ flash' = c /\ Cache' = c BY <2>1, <2>2, ResetRefines
  <2> HIDE DEF c
  <2>4. \A a \in Addr : flash'[a] \in {flash[a], FF} BY <2>2, <2>3
  <2> QED BY <2>3, <2>4 DEF S!Next, S!PowerFails, Cache
<1> QED BY <1>3, <1>4, <1>5

\* Every step of the driver is a step of Store or changes none of its memories.
LEMMA StepRefines == IInv /\ [Next]_vars => [S!Next]_S!vars
<1> SUFFICES ASSUME IInv, [Next]_vars PROVE [S!Next]_S!vars OBVIOUS
<1>1. ASSUME UNCHANGED <<flash, last_page_addr, flash_page_buf>> PROVE S!Next
  <2>1. \A a \in Addr : Contents(a)' = Contents(a) BY <1>1 DEF Contents, Buffered
  <2>2. Cache' = Cache BY <2>1 DEF Cache
  <2> QED BY <1>1, <2>2 DEF S!Next, S!Write, Cache
<1>2. ASSUME NEW o \in Addr, NEW s \in Requests, flash_program(o, s) PROVE S!Next
  BY <1>1, <1>2 DEF flash_program
<1>3. CASE flash_sync BY <1>3, SyncRefines DEF flash_sync
<1>4. CASE SwitchPage BY <1>4, SyncRefines DEF SwitchPage, MustSwitch
<1>5. CASE ProgramPage BY <1>5, ChunkRefines
<1>6. CASE AssertLen \/ AssertErased BY <1>1, <1>6 DEF AssertLen, AssertErased
<1>7. ASSUME NEW k \in Sectors, flash_erase(k) PROVE S!Next BY <1>7, EraseRefines
<1>8. CASE PowerLoss \/ PowerLossInSync \/ \E k \in Sectors : PowerLossInErase(k)
  BY <1>8, PowerLossRefines
<1>9. CASE UNCHANGED vars BY <1>1, <1>9 DEF vars
<1> QED BY <1>2, <1>3, <1>4, <1>5, <1>6, <1>7, <1>8, <1>9 DEF Next, Driver

\* The driver is a memory that is written behind, for pages, sectors and
\* storage areas of any size (flash.c:9-63).
THEOREM Implements == Spec => IsStore
  BY InitRefines, StepRefines, FlashInvariance, PTL DEF Spec, IsStore, S!Spec
=============================================================================

--------------------------- MODULE ConsoleProofs ---------------------------
(***************************************************************************)
(* Proofs about the console and the UART driver, for every number of       *)
(* readers and writers and all buffer sizes: nobody is left asleep, output *)
(* is in order, and the input ring is a line discipline.                   *)
(*                                                                         *)
(* The two halves of the driver share only the interrupt handler, so each  *)
(* has its invariant.  Input: cons.r, w and e are the remainders of counts *)
(* R <= W <= E that never wrap, at most a buffer apart; all that is said   *)
(* of the ring is said of the counts.  Output: the device holds at most    *)
(* one character that a process wrote, and the numbers of those in the     *)
(* transmit buffer follow it.                                              *)
(***************************************************************************)
EXTENDS Console, TLAPS, WellFoundedInduction

-----------------------------------------------------------------------------
(* Inductive invariants.                                                   *)

\* What the variables of consoleread() and consoleintr() range over.
InputTypes ==
  /\ cons \in [buf : [0..(INPUT_BUF_SIZE - 1) -> Chars],
               r : Index, w : Index, e : Index]
  /\ rpc \in [Readers -> {"idle", "loop", "asleep"}]
  /\ want \in [Readers -> Nat] /\ got \in [Readers -> BOOLEAN]
  /\ killedR \subseteq Readers
  /\ hpc \in {"idle", "getc", "start"} \cup Handling
  /\ ch \in Chars \cup {BS, KILL}
  /\ rx \in Seq(Chars \cup {BS, KILL})

\* R characters were read, W belong to complete lines, E are in the buffer
\* or were.  A reader sleeps only when it has read all complete lines; a full
\* buffer is complete; a character that is being echoed will find room.
CountInv(R, W, E) ==
  /\ R <= W /\ W <= E /\ E <= R + INPUT_BUF_SIZE
  /\ cons.r = R % UINTMOD /\ cons.w = W % UINTMOD /\ cons.e = E % UINTMOD
  /\ \A p \in Readers : rpc[p] = "asleep" => R = W
  /\ E = R + INPUT_BUF_SIZE => W = E
  /\ hpc \in {"echo", "send"} /\ ch \in Chars => E < R + INPUT_BUF_SIZE

\* A read that has not returned wants more.
WantInv == \A p \in Readers : rpc[p] # "idle" => want[p] # 0

\* The input side.
InputInv == InputTypes /\ WantInv /\ \E R, W, E \in Nat : CountInv(R, W, E)

\* The characters of the counts after j, up to k.
Span(buf, j, k) == [i \in 1..(k - j) |-> buf[Cell(j + i - 1)]]

\* What the variables of uartputc(), uartstart() and the device range over.
OutputTypes ==
  /\ txbuf \in Seq(Nat) /\ fifo \in Seq(Nat)
  /\ wpc \in [Writers -> {"idle", "put", "asleep", "start"}]
  /\ starter \in [by : Writers \cup {"intr", Nobody}, c : Nat]
  /\ written \in Nat /\ sent \in Nat /\ thri \in BOOLEAN
  /\ hpc \in {"idle", "getc", "start"} \cup Handling

\* Who is in uartstart(), and who sleeps in uartputc().
HolderInv ==
  /\ starter.by = Nobody => starter.c = 0
  /\ hpc = "start" <=> starter.by = "intr"
  /\ \A p \in Writers : wpc[p] = "start" <=> starter.by = p
  /\ Len(txbuf) <= UART_TX_BUF_SIZE
  /\ \A p \in Writers : wpc[p] = "asleep" => Len(txbuf) = UART_TX_BUF_SIZE
  /\ TxFree /\ txbuf # <<>> => fifo # <<>> \/ thri \/ hpc # "idle"

\* Both sides write the device only after they saw it idle.
FifoInv ==
  /\ Len(fifo) + (IF starter.c # 0 THEN 1 ELSE 0)
               + (IF hpc = "send" THEN 1 ELSE 0) <= 2
  /\ starter.c # 0 => \A i \in DOMAIN fifo : fifo[i] = 0
  /\ \A i, j \in DOMAIN fifo : fifo[i] # 0 /\ fifo[j] # 0 => i = j

\* The buffer holds the last characters written, and the one before them, if
\* it was not sent, is in hand or in the device.
NumberInv ==
  LET first == written - Len(txbuf) IN
  /\ first \in Nat
  /\ \A k \in 1..Len(txbuf) : txbuf[k] = first + k
  /\ starter.c # 0 => starter.c = first
  /\ \A i \in DOMAIN fifo : fifo[i] # 0 => fifo[i] = first
  /\ IF starter.c # 0 \/ \E i \in DOMAIN fifo : fifo[i] # 0
     THEN first = sent + 1 ELSE first = sent

\* The output side.
OutputInv == OutputTypes /\ HolderInv /\ FifoInv /\ NumberInv

-----------------------------------------------------------------------------
(* Arithmetic of the ring's indices.                                       *)

\* Division with remainder.
LEMMA DivMod ==
  ASSUME NEW M \in Nat \ {0}, NEW a \in Nat
  PROVE  /\ a % M \in 0..(M - 1) /\ a \div M \in Nat
         /\ a = (M * (a \div M)) + (a % M)
OBVIOUS

\* The remainder is the only one.
LEMMA ModUnique ==
  ASSUME NEW M \in Nat \ {0}, NEW a \in Nat, NEW q \in Nat, NEW r \in 0..(M - 1),
         a = M * q + r
  PROVE  a % M = r
OBVIOUS

\* A whole number of turns makes no difference.
LEMMA ModTurns ==
  ASSUME NEW M \in Nat \ {0}, NEW q \in Nat, NEW a \in Nat
  PROVE  (M * q + a) % M = a % M
<1> DEFINE p == a \div M
           c == a % M
<1>1. p \in Nat /\ c \in 0..(M - 1) /\ a = M * p + c
  BY Zenon, DivMod
<1> HIDE DEF p, c
<1>2. q + p \in Nat /\ M * (q + p) = M * q + M * p /\ M * q \in Nat
  BY <1>1
<1>3. M * q + a \in Nat /\ M * q + a = M * (q + p) + c
  BY <1>1, <1>2
<1>4. (M * q + a) % M = c
  BY Zenon, <1>1, <1>2, <1>3, ModUnique
<1> QED
  BY Zenon, <1>4 DEF c

\* An index that is advanced is the remainder of the advanced count.
LEMMA ModAdd ==
  ASSUME NEW M \in Nat \ {0}, NEW a \in Nat, NEW b \in Nat
  PROVE  ((a % M) + b) % M = (a + b) % M
<1> DEFINE q == a \div M
           r == a % M
<1>1. q \in Nat /\ r \in 0..(M - 1) /\ a = M * q + r
  BY Zenon, DivMod
<1> HIDE DEF q, r
<1>2. r + b \in Nat /\ a + b = M * q + (r + b)
  BY <1>1
<1>3. (M * q + (r + b)) % M = (r + b) % M
  BY Zenon, <1>1, <1>2, ModTurns
<1> QED
  BY Zenon, <1>2, <1>3 DEF r

\* Less than a turn apart, two counts have different remainders.
LEMMA ModApart ==
  ASSUME NEW M \in Nat \ {0}, NEW j \in Nat, NEW k \in Nat, j < k, k < j + M
  PROVE  j % M # k % M
<1> DEFINE q == j \div M
           r == j % M
           d == k - j
<1>1. q \in Nat /\ r \in 0..(M - 1) /\ j = M * q + r
  BY Zenon, DivMod
<1>2. d \in 1..(M - 1) /\ k = j + d
  OBVIOUS
<1> HIDE DEF q, r, d
<1>3. CASE r + d < M
  <2>1. r + d \in 0..(M - 1) /\ k = M * q + (r + d)
    BY <1>1, <1>2, <1>3
  <2>2. k % M = r + d
    BY Zenon, <1>1, <2>1, ModUnique
  <2> QED
    BY <1>1, <1>2, <2>2 DEF r
<1>4. CASE r + d >= M
  <2>1. M * (q + 1) = M * q + M /\ q + 1 \in Nat
    BY <1>1
  <2>2. r + d - M \in 0..(M - 1) /\ k = M * (q + 1) + (r + d - M)
    BY <1>1, <1>2, <1>4, <2>1
  <2>3. k % M = r + d - M
    BY ZenonT(60), <2>1, <2>2, ModUnique
  <2> QED
    BY <1>1, <1>2, <2>3 DEF r
<1> QED
  BY <1>1, <1>2, <1>3, <1>4

\* What the constants say of the sizes.
LEMMA Sizes ==
  /\ INPUT_BUF_SIZE \in Nat \ {0} /\ UINTMOD \in Nat \ {0}
  /\ INPUT_BUF_SIZE < UINTMOD
  /\ \E n \in Nat : UINTMOD = INPUT_BUF_SIZE * n
<1> DEFINE n == UINTMOD \div INPUT_BUF_SIZE
<1>1. /\ INPUT_BUF_SIZE \in Nat \ {0} /\ UINTMOD \in Nat
      /\ UINTMOD % INPUT_BUF_SIZE = 0 /\ UINTMOD > INPUT_BUF_SIZE
  BY Zenon, ConsoleAssumption
<1>2. n \in Nat /\ UINTMOD = INPUT_BUF_SIZE * n + (UINTMOD % INPUT_BUF_SIZE)
  BY Zenon, <1>1, DivMod
<1> HIDE DEF n
<1>3. UINTMOD = INPUT_BUF_SIZE * n
  BY <1>1, <1>2
<1>4. UINTMOD # 0
  BY <1>1
<1> QED
  BY Zenon, <1>1, <1>2, <1>3, <1>4

\* (cons.e + 1), (cons.e - 1) and (cons.w - cons.r) as the C code computes
\* them on uints count as if they did not wrap.
LEMMA IncCount ==
  ASSUME NEW k \in Nat
  PROVE  Inc(k % UINTMOD) = (k + 1) % UINTMOD /\ k % UINTMOD \in Index
  BY Zenon, Sizes, ModAdd, DivMod DEF Inc, Index

\* An index stepped back by an erasure is the index of the count before.
LEMMA DecCount ==
  ASSUME NEW k \in Nat \ {0}
  PROVE  Dec(k % UINTMOD) = (k - 1) % UINTMOD
<1>1. UINTMOD \in Nat \ {0} /\ UINTMOD - 1 \in Nat
  BY Sizes
<1>2. ((k % UINTMOD) + (UINTMOD - 1)) % UINTMOD = (k + (UINTMOD - 1)) % UINTMOD
  BY Zenon, <1>1, ModAdd
<1>3. /\ (k % UINTMOD) + (UINTMOD - 1) = (k % UINTMOD) + UINTMOD - 1
      /\ k + (UINTMOD - 1) = UINTMOD * 1 + (k - 1) /\ k - 1 \in Nat
  BY <1>1, DivMod
<1>4. (UINTMOD * 1 + (k - 1)) % UINTMOD = (k - 1) % UINTMOD
  BY Zenon, <1>1, <1>3, ModTurns
<1> QED
  BY Zenon, <1>2, <1>3, <1>4 DEF Dec

\* The difference of two indices is that of their counts.
LEMMA MinusCount ==
  ASSUME NEW j \in Nat, NEW k \in Nat, j <= k, k < j + UINTMOD
  PROVE  Minus(k % UINTMOD, j % UINTMOD) = k - j
<1> DEFINE q == j \div UINTMOD
           r == j % UINTMOD
<1>0. UINTMOD \in Nat \ {0}
  BY Zenon, Sizes
<1>1. q \in Nat /\ r \in 0..(UINTMOD - 1) /\ j = UINTMOD * q + r
  BY Zenon, <1>0, DivMod
<1> HIDE DEF q, r
<1>2. UINTMOD - r \in Nat /\ k + (UINTMOD - r) \in Nat
  BY <1>0, <1>1
<1>3. ((k % UINTMOD) + (UINTMOD - r)) % UINTMOD
        = (k + (UINTMOD - r)) % UINTMOD
  BY Zenon, <1>0, <1>2, ModAdd
<1>4. UINTMOD * (q + 1) = UINTMOD * q + UINTMOD /\ q + 1 \in Nat
  BY <1>0, <1>1
<1>5. /\ k - j \in 0..(UINTMOD - 1)
      /\ k + (UINTMOD - r) = UINTMOD * (q + 1) + (k - j)
  BY <1>0, <1>1, <1>4
<1>6. (k + (UINTMOD - r)) % UINTMOD = k - j
  BY Zenon, <1>0, <1>2, <1>4, <1>5, ModUnique
<1>7. (k % UINTMOD) + (UINTMOD - r) = (k % UINTMOD) + UINTMOD - r
  BY Zenon, <1>0, <1>1, DivMod
<1> QED
  BY Zenon, <1>3, <1>6, <1>7 DEF Minus, r

\* cons.buf[cons.e % INPUT_BUF_SIZE] is the cell of the count, for the size
\* of the buffer divides the range of the index.
LEMMA CellCount ==
  ASSUME NEW k \in Nat
  PROVE  Cell(k % UINTMOD) = Cell(k) /\ Cell(k) \in 0..(INPUT_BUF_SIZE - 1)
<1> DEFINE q == k \div UINTMOD
           r == k % UINTMOD
<1>1. INPUT_BUF_SIZE \in Nat \ {0} /\ UINTMOD \in Nat \ {0}
  BY Zenon, Sizes
<1>2. PICK n \in Nat : UINTMOD = INPUT_BUF_SIZE * n
  BY Zenon, Sizes
<1>3. q \in Nat /\ r \in Nat /\ k = UINTMOD * q + r
  BY <1>1, DivMod
<1> HIDE DEF q, r
<1>4. UINTMOD * q = INPUT_BUF_SIZE * (n * q) /\ n * q \in Nat
  BY <1>1, <1>2, <1>3
<1>5. k = INPUT_BUF_SIZE * (n * q) + r
  BY Zenon, <1>3, <1>4
<1>6. (INPUT_BUF_SIZE * (n * q) + r) % INPUT_BUF_SIZE = r % INPUT_BUF_SIZE
  BY Zenon, <1>1, <1>3, <1>4, ModTurns
<1>7. k % INPUT_BUF_SIZE \in 0..(INPUT_BUF_SIZE - 1)
  BY Zenon, <1>1, DivMod
<1> QED
  BY Zenon, <1>5, <1>6, <1>7 DEF Cell, r

\* Characters that are in the buffer at the same time are in different cells.
LEMMA CellApart ==
  ASSUME NEW j \in Nat, NEW k \in Nat, j < k, k < j + INPUT_BUF_SIZE
  PROVE  Cell(j) # Cell(k)
<1>1. INPUT_BUF_SIZE \in Nat \ {0}
  BY Zenon, Sizes
<1>2. j % INPUT_BUF_SIZE # k % INPUT_BUF_SIZE
  BY Zenon, <1>1, ModApart
<1> QED
  BY Zenon, <1>2 DEF Cell

\* What a part of the ring holds, in terms of the counts.
LEMMA RingCount ==
  ASSUME NEW j \in Nat, NEW k \in Nat, j <= k, k <= j + INPUT_BUF_SIZE
  PROVE  /\ Minus(k % UINTMOD, j % UINTMOD) = k - j
         /\ \A i \in 1..(k - j) :
              Cell(((j % UINTMOD) + i - 1) % UINTMOD) = Cell(j + i - 1)
<1>1. UINTMOD \in Nat \ {0} /\ INPUT_BUF_SIZE \in Nat /\ INPUT_BUF_SIZE < UINTMOD
  BY Zenon, Sizes
<1>2. Minus(k % UINTMOD, j % UINTMOD) = k - j
  <2>1. k < j + UINTMOD
    BY <1>1
  <2> QED
    BY Zenon, <2>1, MinusCount
<1>3. ASSUME NEW i \in 1..(k - j)
      PROVE  Cell(((j % UINTMOD) + i - 1) % UINTMOD) = Cell(j + i - 1)
  <2>1. i - 1 \in Nat /\ j + (i - 1) \in Nat /\ j + (i - 1) = j + i - 1
    OBVIOUS
  <2>2. (j % UINTMOD) + (i - 1) = (j % UINTMOD) + i - 1
    BY Zenon, <1>1, DivMod
  <2>3. ((j % UINTMOD) + (i - 1)) % UINTMOD = (j + (i - 1)) % UINTMOD
    BY Zenon, <1>1, <2>1, ModAdd
  <2>4. Cell((j + (i - 1)) % UINTMOD) = Cell(j + (i - 1))
    BY Zenon, <2>1, CellCount
  <2> QED
    BY Zenon, <2>1, <2>2, <2>3, <2>4
<1> QED
  BY Zenon, <1>2, <1>3

\* A span is a sequence of characters.
LEMMA SpanSeq ==
  ASSUME NEW buf \in [0..(INPUT_BUF_SIZE - 1) -> Chars],
         NEW j \in Nat, NEW k \in Nat, j <= k
  PROVE  /\ Span(buf, j, k) \in Seq(Chars) /\ Len(Span(buf, j, k)) = k - j
         /\ \A i \in 1..(k - j) : Span(buf, j, k)[i] = buf[Cell(j + i - 1)]
<1>1. \A i \in 1..(k - j) : buf[Cell(j + i - 1)] \in Chars
  <2>1. \A i \in 1..(k - j) : j + i - 1 \in Nat
    OBVIOUS
  <2> QED
    BY Zenon, <2>1, CellCount
<1>2. k - j \in Nat
  OBVIOUS
<1> QED
  BY <1>1, <1>2 DEF Span

-----------------------------------------------------------------------------
(* Output: every step keeps OutputInv.                                     *)

\* What a step does not touch stays so.
LEMMA OutputSame ==
  ASSUME OutputInv, UNCHANGED <<txbuf, wpc, starter, written, fifo, thri, sent, hpc>>
  PROVE  OutputInv'
  BY ZenonT(60) DEF OutputInv, OutputTypes, HolderInv, FifoInv, NumberInv, TxFree, Handling

\* The interrupt handler moves on without a word to the device.
LEMMA HandlerMoves ==
  ASSUME OutputInv, UNCHANGED <<txbuf, wpc, starter, written, fifo, thri, sent>>,
         hpc # "start", hpc' \in {"getc", "echo", "erase"}
  PROVE  OutputInv'
<1>0. OutputTypes /\ HolderInv /\ FifoInv /\ NumberInv
  BY Zenon DEF OutputInv
<1>1. OutputTypes'
  BY Zenon, <1>0 DEF OutputTypes, Handling
<1>2. HolderInv'
  BY Zenon, <1>0 DEF HolderInv, TxFree
<1>3. FifoInv'
  <2>1. Len(fifo) \in Nat /\ hpc' # "send"
    BY <1>0 DEF OutputTypes
  <2>2. Len(fifo) + (IF starter.c # 0 THEN 1 ELSE 0) <= 2
    <3>1. Len(fifo) + (IF starter.c # 0 THEN 1 ELSE 0)
            + (IF hpc = "send" THEN 1 ELSE 0) <= 2
      BY Zenon, <1>0 DEF FifoInv
    <3>2. CASE hpc = "send"
      BY ONLY <2>1, <3>1, <3>2
    <3>3. CASE hpc # "send"
      BY ONLY <2>1, <3>1, <3>3
    <3> QED
      BY Zenon, <3>2, <3>3
  <2> QED
    BY <1>0, <2>1, <2>2 DEF FifoInv
<1>4. NumberInv'
  BY Zenon, <1>0 DEF NumberInv
<1> QED
  BY Zenon, <1>1, <1>2, <1>3, <1>4 DEF OutputInv

\* uartputc_sync() has seen the device idle.
LEMMA SyncWaitKeeps ==
  ASSUME OutputInv, SyncWait
  PROVE  OutputInv'
<1>0. OutputTypes /\ HolderInv /\ FifoInv /\ NumberInv
  BY Zenon DEF OutputInv
<1>a. /\ hpc = "echo" /\ hpc' = "send" /\ fifo = <<>>
      /\ UNCHANGED <<txbuf, wpc, starter, written, fifo, thri, sent>>
  BY Zenon DEF SyncWait, TxIdle, output, devtx
<1>1. OutputTypes'
  BY Zenon, <1>0, <1>a DEF OutputTypes, Handling
<1>2. HolderInv'
  BY Zenon, <1>0, <1>a DEF HolderInv, TxFree
<1>3. FifoInv'
  BY <1>a DEF FifoInv
<1>4. NumberInv'
  BY Zenon, <1>0, <1>a DEF NumberInv
<1> QED
  BY Zenon, <1>1, <1>2, <1>3, <1>4 DEF OutputInv

\* The echo: the device has room for it, whatever uartstart() has written
\* since uartputc_sync() looked.
LEMMA EchoKeeps ==
  ASSUME OutputInv, hpc = "send", WriteTHR(0), hpc' \in {"getc", "erase"},
         UNCHANGED <<txbuf, wpc, starter, written, sent>>
  PROVE  OutputInv'
<1>0. OutputTypes /\ HolderInv /\ FifoInv /\ NumberInv
  BY Zenon DEF OutputInv
<1>a. /\ Len(fifo) \in Nat /\ fifo \in Seq(Nat) /\ starter.c \in Nat
      /\ Len(fifo) + (IF starter.c # 0 THEN 1 ELSE 0) <= 1
  BY <1>0 DEF OutputTypes, FifoInv
<1>b. fifo' = Append(fifo, 0) /\ thri' = FALSE
  BY <1>a, ConsoleAssumption DEF WriteTHR
<1>c. /\ fifo' \in Seq(Nat) /\ Len(fifo') = Len(fifo) + 1
      /\ DOMAIN fifo = 1..Len(fifo) /\ DOMAIN fifo' = 1..(Len(fifo) + 1)
      /\ fifo'[Len(fifo) + 1] = 0 /\ fifo' # <<>>
      /\ \A i \in 1..Len(fifo) : fifo'[i] = fifo[i]
  BY <1>a, <1>b
<1>d. \A i \in DOMAIN fifo' : fifo'[i] # 0 => i \in DOMAIN fifo /\ fifo'[i] = fifo[i]
  BY <1>a, <1>c
<1>e. \A i \in DOMAIN fifo : i \in DOMAIN fifo' /\ fifo'[i] = fifo[i]
  BY <1>a, <1>c
<1>1. OutputTypes'
  BY Zenon, <1>0, <1>b, <1>c DEF OutputTypes, Handling
<1>2. HolderInv'
  BY Zenon, <1>0, <1>c DEF HolderInv, TxFree
<1>3. FifoInv'
  BY <1>0, <1>a, <1>c, <1>d DEF FifoInv
<1>4. NumberInv'
  BY Zenon, <1>0, <1>d, <1>e DEF NumberInv
<1> QED
  BY Zenon, <1>1, <1>2, <1>3, <1>4 DEF OutputInv

\* A process calls uartputc().
LEMMA WriteKeeps ==
  ASSUME OutputInv, NEW p \in Writers, Write(p)
  PROVE  OutputInv'
<1>0. OutputTypes /\ HolderInv /\ FifoInv /\ NumberInv
  BY Zenon DEF OutputInv
<1>a. /\ wpc[p] = "idle" /\ wpc' = [wpc EXCEPT ![p] = "put"]
      /\ UNCHANGED <<txbuf, starter, written, fifo, thri, sent, hpc>>
  BY Zenon DEF Write, devtx
<1>1. OutputTypes'
  BY Zenon, <1>0, <1>a DEF OutputTypes, Handling
<1>2. HolderInv'
  BY Zenon, <1>0, <1>a DEF HolderInv, TxFree, OutputTypes
<1>3. FifoInv'
  BY Zenon, <1>0, <1>a DEF FifoInv
<1>4. NumberInv'
  BY Zenon, <1>0, <1>a DEF NumberInv
<1> QED
  BY Zenon, <1>1, <1>2, <1>3, <1>4 DEF OutputInv

\* uartputc() sleeps only while the buffer is full; a character it appends is
\* the next one.
LEMMA PutcKeeps ==
  ASSUME OutputInv, NEW p \in Writers, Putc(p)
  PROVE  OutputInv'
<1>0. OutputTypes /\ HolderInv /\ FifoInv /\ NumberInv
  BY Zenon DEF OutputInv
<1>a. /\ wpc[p] = "put" /\ starter.by = Nobody /\ starter.c = 0
      /\ UNCHANGED <<fifo, thri, sent, hpc>>
      /\ Nobody # p /\ p # "intr" /\ Nobody # "intr" /\ txbuf \in Seq(Nat)
      /\ written \in Nat /\ Len(txbuf) \in Nat
      /\ UART_TX_BUF_SIZE \in Nat
  BY <1>0, ConsoleAssumption DEF Putc, devtx, TxFree, HolderInv, OutputTypes
<1>1. CASE Len(txbuf) = UART_TX_BUF_SIZE
  <2>a. wpc' = [wpc EXCEPT ![p] = "asleep"] /\ UNCHANGED <<txbuf, starter, written>>
    BY Zenon, <1>1 DEF Putc
  <2>1. OutputTypes'
    BY Zenon, <1>0, <1>a, <2>a DEF OutputTypes, Handling
  <2>2. HolderInv'
    BY Zenon, <1>0, <1>1, <1>a, <2>a DEF HolderInv, TxFree, OutputTypes
  <2>3. FifoInv'
    BY Zenon, <1>0, <1>a, <2>a DEF FifoInv
  <2>4. NumberInv'
    BY Zenon, <1>0, <1>a, <2>a DEF NumberInv
  <2> QED
    BY Zenon, <2>1, <2>2, <2>3, <2>4 DEF OutputInv
<1>2. CASE Len(txbuf) # UART_TX_BUF_SIZE
  <2>a. /\ written' = written + 1 /\ txbuf' = Append(txbuf, written + 1)
        /\ starter' = [by |-> p, c |-> 0] /\ wpc' = [wpc EXCEPT ![p] = "start"]
    BY Zenon, <1>2 DEF Putc
  <2>b. /\ txbuf' \in Seq(Nat) /\ Len(txbuf') = Len(txbuf) + 1
        /\ txbuf'[Len(txbuf) + 1] = written + 1
        /\ \A k \in 1..Len(txbuf) : txbuf'[k] = txbuf[k]
    BY <1>a, <2>a
  <2>c. starter'.by = p /\ starter'.c = 0 /\ starter' \in [by : Writers \cup {"intr", Nobody}, c : Nat]
    BY Zenon, <2>a
  <2>1. OutputTypes'
    BY <1>0, <1>a, <2>a, <2>b, <2>c DEF OutputTypes, Handling
  <2>2. HolderInv'
    <3>1. \A q \in Writers : wpc[q] # "asleep" /\ wpc[q] # "start"
      BY Zenon, <1>0, <1>a, <1>2, ConsoleAssumption DEF HolderInv
    <3>2. \A q \in Writers : wpc'[q] = IF q = p THEN "start" ELSE wpc[q]
      BY Zenon, <1>0, <2>a DEF OutputTypes
    <3>3. Len(txbuf') <= UART_TX_BUF_SIZE
      BY <1>0, <1>a, <1>2, <2>b DEF HolderInv
    <3> QED
      BY <1>0, <1>a, <2>c, <3>1, <3>2, <3>3 DEF HolderInv, TxFree
  <2>3. FifoInv'
    BY Zenon, <1>0, <1>a, <2>c DEF FifoInv
  <2>4. NumberInv'
    <3>1. written' - Len(txbuf') = written - Len(txbuf)
      BY <1>a, <2>a, <2>b
    <3>2. \A k \in 1..Len(txbuf') : txbuf'[k] = written - Len(txbuf) + k
      <4>1. \A k \in 1..Len(txbuf) : txbuf[k] = written - Len(txbuf) + k
        BY Zenon, <1>0 DEF NumberInv
      <4> QED
        BY ONLY SMTT(30), <1>a, <2>b, <4>1
    <3> QED
      BY Zenon, <1>0, <1>a, <2>c, <3>1, <3>2 DEF NumberInv
  <2> QED
    BY Zenon, <2>1, <2>2, <2>3, <2>4 DEF OutputInv
<1> QED
  BY Zenon, <1>1, <1>2

\* The handler enters uartstart() when nothing more has arrived.
LEMMA GetcNoneKeeps ==
  ASSUME OutputInv, GetcNone
  PROVE  OutputInv'
<1>0. OutputTypes /\ HolderInv /\ FifoInv /\ NumberInv
  BY Zenon DEF OutputInv
<1>a. /\ hpc = "getc" /\ hpc' = "start" /\ starter.by = Nobody /\ starter.c = 0
      /\ starter' = [by |-> "intr", c |-> 0]
      /\ UNCHANGED <<txbuf, wpc, written, fifo, thri, sent>>
      /\ \A p \in Writers : p # Nobody /\ p # "intr"
      /\ Nobody # "intr"
  BY Zenon, <1>0, ConsoleAssumption DEF GetcNone, devtx, TxFree, HolderInv
<1>b. /\ starter'.by = "intr" /\ starter'.c = 0
      /\ starter' \in [by : Writers \cup {"intr", Nobody}, c : Nat]
  BY Zenon, <1>a
<1>1. OutputTypes'
  BY Zenon, <1>0, <1>a, <1>b DEF OutputTypes, Handling
<1>2. HolderInv'
  BY Zenon, <1>0, <1>a, <1>b DEF HolderInv, TxFree
<1>3. FifoInv'
  BY Zenon, <1>0, <1>a, <1>b DEF FifoInv
<1>4. NumberInv'
  BY Zenon, <1>0, <1>a, <1>b DEF NumberInv
<1> QED
  BY Zenon, <1>1, <1>2, <1>3, <1>4 DEF OutputInv

\* uartstart() takes a character: the device is idle and holds none of the
\* characters before it, and every writer is woken.
LEMMA StartTakes ==
  ASSUME OutputInv, StartTurn, txbuf # <<>>, TxIdle
  PROVE  OutputInv'
<1>0. OutputTypes /\ HolderInv /\ FifoInv /\ NumberInv
  BY Zenon DEF OutputInv
<1>a. /\ starter.by # Nobody /\ starter.c = 0 /\ fifo = <<>>
      /\ starter' = [starter EXCEPT !.c = Head(txbuf)]
      /\ txbuf' = Tail(txbuf) /\ wpc' = WakeWriters
      /\ UNCHANGED <<hpc, thri, written, fifo, sent>>
  BY Zenon DEF StartTurn, TxIdle
<1>b. /\ txbuf \in Seq(Nat) /\ Len(txbuf) \in Nat \ {0} /\ written \in Nat
      /\ sent \in Nat /\ starter \in [by : Writers \cup {"intr", Nobody}, c : Nat]
  BY <1>0 DEF OutputTypes
<1>c. /\ txbuf' \in Seq(Nat) /\ Len(txbuf') = Len(txbuf) - 1
      /\ \A k \in 1..Len(txbuf') : txbuf'[k] = txbuf[k + 1] /\ k + 1 \in 1..Len(txbuf)
      /\ Head(txbuf) = txbuf[1] /\ 1 \in 1..Len(txbuf)
  BY <1>a, <1>b
<1>d. /\ \A k \in 1..Len(txbuf) : txbuf[k] = written - Len(txbuf) + k
      /\ written - Len(txbuf) = sent
  BY <1>0, <1>a DEF NumberInv
<1>e. /\ Head(txbuf) = sent + 1 /\ Head(txbuf) \in Nat
      /\ written - Len(txbuf') = sent + 1
  BY <1>a, <1>b, <1>c, <1>d
<1>f. /\ starter'.by = starter.by /\ starter'.c = sent + 1 /\ starter'.c # 0
      /\ starter' \in [by : Writers \cup {"intr", Nobody}, c : Nat]
  <2>1. /\ starter' = [starter EXCEPT !.c = sent + 1] /\ sent + 1 \in Nat
        /\ sent + 1 # 0
    BY ONLY <1>a, <1>b, <1>e
  <2> QED
    BY ONLY Zenon, <1>b, <2>1
<1>1. OutputTypes'
  BY Zenon, <1>0, <1>a, <1>c, <1>f DEF OutputTypes, Handling, WakeWriters
<1>2. HolderInv'
  <2>1. \A p \in Writers : /\ wpc'[p] # "asleep"
                           /\ wpc'[p] = "start" <=> wpc[p] = "start"
    BY Zenon, <1>0, <1>a DEF OutputTypes, WakeWriters
  <2>2. Len(txbuf') <= UART_TX_BUF_SIZE
    BY <1>0, <1>b, <1>c, ConsoleAssumption DEF HolderInv
  <2> QED
    BY Zenon, <1>0, <1>a, <1>f, <2>1, <2>2 DEF HolderInv, TxFree
<1>3. FifoInv'
  BY <1>a, <1>f DEF FifoInv
<1>4. NumberInv'
  <2>1. \A k \in 1..Len(txbuf') : txbuf'[k] = sent + 1 + k
    BY <1>b, <1>c, <1>d
  <2>2. fifo' = <<>>
    BY Zenon, <1>a
  <2> QED
    BY <1>a, <1>b, <1>e, <1>f, <2>1, <2>2 DEF NumberInv
<1> QED
  BY Zenon, <1>1, <1>2, <1>3, <1>4 DEF OutputInv

\* uartstart() returns: nothing to send, or the device will interrupt.
LEMMA StartReturns ==
  ASSUME OutputInv, StartTurn, txbuf = <<>> \/ ~TxIdle
  PROVE  OutputInv'
<1>0. OutputTypes /\ HolderInv /\ FifoInv /\ NumberInv
  BY Zenon DEF OutputInv
<1>a. /\ starter.by # Nobody /\ starter.c = 0
      /\ starter' = [by |-> Nobody, c |-> 0]
      /\ wpc' = IF starter.by = "intr" THEN wpc
                ELSE [wpc EXCEPT ![starter.by] = "idle"]
      /\ hpc' = IF starter.by = "intr" THEN "idle" ELSE hpc
      /\ thri' = (thri /\ txbuf # <<>>)
      /\ UNCHANGED <<txbuf, written, fifo, sent>>
      /\ txbuf # <<>> => fifo # <<>>
  BY Zenon DEF StartTurn, TxIdle
<1>b. /\ starter.by \in Writers \cup {"intr"} /\ Len(fifo) \in Nat
      /\ starter'.by = Nobody /\ starter'.c = 0
      /\ starter' \in [by : Writers \cup {"intr", Nobody}, c : Nat]
      /\ \A p \in Writers : p # Nobody /\ p # "intr"
      /\ Nobody # "intr"
  BY <1>0, <1>a, ConsoleAssumption DEF OutputTypes
<1>1. OutputTypes'
  BY Zenon, <1>0, <1>a, <1>b DEF OutputTypes, Handling
<1>2. HolderInv'
  <2>1. \A p \in Writers : /\ wpc'[p] # "start"
                           /\ wpc'[p] = "asleep" => wpc[p] = "asleep"
    <3>1. \A p \in Writers : wpc'[p] = IF p = starter.by THEN "idle" ELSE wpc[p]
      BY Zenon, <1>0, <1>a, <1>b DEF OutputTypes
    <3> QED
      BY Zenon, <1>0, <3>1 DEF HolderInv
  <2>2. hpc' # "start"
    BY Zenon, <1>0, <1>a DEF HolderInv
  <2> QED
    BY Zenon, <1>0, <1>a, <1>b, <2>1, <2>2 DEF HolderInv, TxFree
<1>3. FifoInv'
  <2>1. hpc' = "send" <=> hpc = "send"
    BY Zenon, <1>0, <1>a DEF HolderInv
  <2> QED
    BY Zenon, <1>0, <1>a, <1>b, <2>1 DEF FifoInv
<1>4. NumberInv'
  BY Zenon, <1>0, <1>a, <1>b DEF NumberInv
<1> QED
  BY Zenon, <1>1, <1>2, <1>3, <1>4 DEF OutputInv

\* uartstart() writes the character to the device, behind an echo at most.
LEMMA StartWriteKeeps ==
  ASSUME OutputInv, StartWrite
  PROVE  OutputInv'
<1>0. OutputTypes /\ HolderInv /\ FifoInv /\ NumberInv
  BY Zenon DEF OutputInv
<1> DEFINE c == starter.c
<1>a. /\ starter.by # Nobody /\ c # 0 /\ WriteTHR(c)
      /\ starter' = [starter EXCEPT !.c = 0]
      /\ UNCHANGED <<txbuf, wpc, written, sent, hpc>>
  BY Zenon DEF StartWrite
<1>b. /\ Len(fifo) \in Nat /\ fifo \in Seq(Nat) /\ c \in Nat
      /\ starter \in [by : Writers \cup {"intr", Nobody}, c : Nat]
      /\ Len(fifo) + 1 + (IF hpc = "send" THEN 1 ELSE 0) <= 2
      /\ Len(fifo) <= 1
  BY <1>0, <1>a DEF OutputTypes, FifoInv
<1>c. fifo' = Append(fifo, c) /\ thri' = FALSE
  BY <1>a, <1>b, ConsoleAssumption DEF WriteTHR
<1>d. /\ starter'.by = starter.by /\ starter'.c = 0
      /\ starter' \in [by : Writers \cup {"intr", Nobody}, c : Nat]
  BY Zenon, <1>a, <1>b
<1> HIDE DEF c
<1>e. /\ fifo' \in Seq(Nat) /\ Len(fifo') = Len(fifo) + 1
      /\ DOMAIN fifo = 1..Len(fifo) /\ DOMAIN fifo' = 1..(Len(fifo) + 1)
      /\ fifo'[Len(fifo) + 1] = c /\ fifo' # <<>>
      /\ \A i \in 1..Len(fifo) : fifo'[i] = fifo[i]
  BY <1>b, <1>c
<1>f. \A i \in DOMAIN fifo : fifo[i] = 0
  BY Zenon, <1>0, <1>a DEF FifoInv, c
<1>g. \A i \in DOMAIN fifo' : fifo'[i] # 0 <=> i = Len(fifo) + 1
  BY <1>a, <1>b, <1>e, <1>f
<1>1. OutputTypes'
  BY Zenon, <1>0, <1>a, <1>c, <1>d, <1>e DEF OutputTypes, Handling
<1>2. HolderInv'
  BY Zenon, <1>0, <1>a, <1>d, <1>e DEF HolderInv, TxFree
<1>3. FifoInv'
  BY <1>a, <1>b, <1>d, <1>e, <1>g DEF FifoInv
<1>4. NumberInv'
  <2>1. c = written - Len(txbuf) /\ written - Len(txbuf) = sent + 1
    BY Zenon, <1>0, <1>a DEF NumberInv, c
  <2>2. \A i \in DOMAIN fifo' : fifo'[i] # 0 => fifo'[i] = c
    BY Zenon, <1>e, <1>g
  <2>3. \E i \in DOMAIN fifo' : fifo'[i] # 0
    BY <1>a, <1>b, <1>e
  <2> QED
    BY Zenon, <1>0, <1>a, <1>d, <2>1, <2>2, <2>3 DEF NumberInv
<1> QED
  BY Zenon, <1>1, <1>2, <1>3, <1>4 DEF OutputInv

\* The device sends the character at the head of its FIFO.
LEMMA TransmitKeeps ==
  ASSUME OutputInv, Transmit
  PROVE  OutputInv'
<1>0. OutputTypes /\ HolderInv /\ FifoInv /\ NumberInv
  BY Zenon DEF OutputInv
<1>a. /\ fifo # <<>> /\ fifo' = Tail(fifo)
      /\ sent' = IF Head(fifo) = 0 THEN sent ELSE sent + 1
      /\ thri' = (thri \/ fifo' = <<>>)
      /\ UNCHANGED <<txbuf, wpc, starter, written, hpc>>
  BY Zenon DEF Transmit, output
<1>b. /\ fifo \in Seq(Nat) /\ Len(fifo) \in Nat \ {0} /\ sent \in Nat
      /\ starter.c \in Nat
  BY <1>0, <1>a DEF OutputTypes
<1>c. /\ fifo' \in Seq(Nat) /\ Len(fifo') = Len(fifo) - 1
      /\ DOMAIN fifo = 1..Len(fifo) /\ DOMAIN fifo' = 1..(Len(fifo) - 1)
      /\ Head(fifo) = fifo[1] /\ 1 \in DOMAIN fifo
      /\ \A i \in DOMAIN fifo' : fifo'[i] = fifo[i + 1] /\ i + 1 \in DOMAIN fifo
      /\ \A i \in DOMAIN fifo : i # 1 => i - 1 \in DOMAIN fifo' /\ fifo'[i - 1] = fifo[i]
  BY SMTT(30), <1>a, <1>b
<1>1. OutputTypes'
  BY <1>0, <1>a, <1>b, <1>c DEF OutputTypes, Handling
<1>2. HolderInv'
  BY Zenon, <1>0, <1>a DEF HolderInv, TxFree
<1>3. FifoInv'
  <2>1. Len(fifo') + (IF starter.c # 0 THEN 1 ELSE 0)
          + (IF hpc = "send" THEN 1 ELSE 0) <= 2
    <3> DEFINE c == IF starter.c # 0 THEN 1 ELSE 0
               h == IF hpc = "send" THEN 1 ELSE 0
    <3>1. c \in {0, 1} /\ h \in {0, 1}
      BY Zenon
    <3>2. Len(fifo) + c + h <= 2
      BY Zenon, <1>0 DEF FifoInv
    <3> HIDE DEF c, h
    <3>3. Len(fifo') + c + h <= 2
      BY ONLY <1>b, <1>c, <3>1, <3>2
    <3> QED
      BY Zenon, <3>3 DEF c, h
  <2>2. \A i, j \in DOMAIN fifo' : fifo'[i] # 0 /\ fifo'[j] # 0 => i = j
    BY <1>0, <1>c DEF FifoInv
  <2>3. starter.c # 0 => \A i \in DOMAIN fifo' : fifo'[i] = 0
    BY Zenon, <1>0, <1>c DEF FifoInv
  <2> QED
    BY Zenon, <1>a, <2>1, <2>2, <2>3 DEF FifoInv
<1>4. NumberInv'
  <2> DEFINE first == written - Len(txbuf)
  <2>1. /\ first \in Nat /\ \A k \in 1..Len(txbuf) : txbuf[k] = first + k
        /\ starter.c # 0 => starter.c = first
        /\ \A i \in DOMAIN fifo : fifo[i] # 0 => fifo[i] = first
        /\ IF starter.c # 0 \/ \E i \in DOMAIN fifo : fifo[i] # 0
           THEN first = sent + 1 ELSE first = sent
    BY Zenon, <1>0 DEF NumberInv
  <2> HIDE DEF first
  <2>2. \A i \in DOMAIN fifo' : fifo'[i] # 0 => fifo'[i] = first
    BY Zenon, <1>c, <2>1
  <2>3. CASE fifo[1] # 0
    <3>1. \A i \in DOMAIN fifo' : fifo'[i] = 0
      <4>1. \A i \in DOMAIN fifo' : i + 1 # 1
        BY ONLY <1>b, <1>c
      <4>2. \A i \in DOMAIN fifo : fifo[i] # 0 => i = 1
        BY Zenon, <1>0, <1>c, <2>3 DEF FifoInv
      <4> QED
        BY Zenon, <1>c, <4>1, <4>2
    <3>2. starter.c = 0 /\ first = sent + 1 /\ sent' = sent + 1
      BY Zenon, <1>0, <1>a, <1>c, <2>1, <2>3 DEF FifoInv
    <3> QED
      BY Zenon, <1>a, <2>1, <3>1, <3>2 DEF NumberInv, first
  <2>4. CASE fifo[1] = 0
    <3>1. (\E i \in DOMAIN fifo' : fifo'[i] # 0) <=> \E i \in DOMAIN fifo : fifo[i] # 0
      BY Zenon, <1>c, <2>4
    <3> QED
      BY Zenon, <1>a, <1>c, <2>1, <2>2, <2>4, <3>1 DEF NumberInv, first
  <2> QED
    BY Zenon, <2>3, <2>4
<1> QED
  BY Zenon, <1>1, <1>2, <1>3, <1>4 DEF OutputInv

\* Before anything is written the invariants hold trivially.
LEMMA OutputInit ==
  ASSUME ConsoleInit
  PROVE  OutputInv
<1>1. /\ txbuf = <<>> /\ wpc = [p \in Writers |-> "idle"] /\ written = 0
      /\ starter = [by |-> Nobody, c |-> 0] /\ hpc = "idle"
      /\ fifo = <<>> /\ thri = FALSE /\ sent = 0
  BY Zenon DEF ConsoleInit
<1>2. OutputTypes
  <2>1. starter \in [by : Writers \cup {"intr", Nobody}, c : Nat]
    BY Zenon, <1>1
  <2>2. txbuf \in Seq(Nat) /\ fifo \in Seq(Nat) /\ written \in Nat /\ sent \in Nat
    BY <1>1
  <2> QED
    BY Zenon, <1>1, <2>1, <2>2 DEF OutputTypes
<1>3. HolderInv
  BY <1>1, ConsoleAssumption DEF HolderInv, TxFree
<1>4. FifoInv
  BY <1>1 DEF FifoInv
<1>5. NumberInv
  <2>1. /\ written - Len(txbuf) = 0 /\ 1..Len(txbuf) = {} /\ 0 \in Nat
        /\ DOMAIN fifo = {} /\ starter.c = 0
    <3>1. Len(txbuf) = 0 /\ DOMAIN fifo = {} /\ starter.c = 0
      BY <1>1
    <3>2. 0 - 0 = 0 /\ 1..0 = {} /\ 0 \in Nat
      OBVIOUS
    <3> QED
      BY Zenon, <1>1, <3>1, <3>2
  <2> QED
    BY Zenon, <1>1, <2>1 DEF NumberInv
<1> QED
  BY Zenon, <1>2, <1>3, <1>4, <1>5 DEF OutputInv

\* All steps together.
LEMMA OutputNext ==
  ASSUME OutputInv, [ConsoleNext]_cvars
  PROVE  OutputInv'
<1>1. ASSUME NEW p \in Readers,
             \/ \E n \in 1..INPUT_BUF_SIZE : Read(p, n)
             \/ ReadLoop(p) \/ KillReader(p)
      PROVE  OutputInv'
  BY Zenon, <1>1, OutputSame DEF Read, ReadLoop, KillReader, output, devtx
<1>2. ASSUME NEW p \in Writers, Write(p) \/ Putc(p) PROVE OutputInv'
  BY Zenon, <1>2, WriteKeeps, PutcKeeps
<1>3. ASSUME StartTurn PROVE OutputInv'
  BY Zenon, <1>3, StartTakes, StartReturns
<1>4. ASSUME NEW c \in Chars \cup {BS, KILL}, Type(c) PROVE OutputInv'
  BY Zenon, <1>4, OutputSame DEF Type, output, devtx
<1>5. ASSUME Claim PROVE OutputInv'
  <2>1. hpc # "start" /\ hpc' = "getc"
    BY Zenon, <1>5 DEF Claim
  <2> QED
    BY Zenon, <1>5, <2>1, HandlerMoves DEF Claim, output, devtx
<1>6. ASSUME Getc PROVE OutputInv'
  <2>1. hpc # "start" /\ hpc' \in {"getc", "echo", "erase"}
    BY Zenon, <1>6 DEF Getc
  <2> QED
    BY Zenon, <1>6, <2>1, HandlerMoves DEF Getc, output, devtx
<1>7. ASSUME Erase PROVE OutputInv'
  <2>1. hpc # "start" /\ hpc' \in {"getc", "echo", "erase"}
    BY Zenon, <1>7 DEF Erase
  <2> QED
    BY Zenon, <1>7, <2>1, HandlerMoves DEF Erase, output, devtx
<1>8. ASSUME Erased PROVE OutputInv'
  BY Zenon, <1>8, EchoKeeps DEF Erased, output
<1>9. ASSUME Store PROVE OutputInv'
  BY Zenon, <1>9, EchoKeeps DEF Store, output
<1>10. ASSUME UNCHANGED cvars PROVE OutputInv'
  BY Zenon, <1>10, OutputSame DEF cvars, output, devtx
<1> QED
  BY Zenon, <1>1, <1>2, <1>3, <1>4, <1>5, <1>6, <1>7, <1>8, <1>9, <1>10, GetcNoneKeeps, SyncWaitKeeps,
     StartWriteKeeps, TransmitKeeps DEF ConsoleNext, Handler, Starter

\* The characters on their way, in terms of the numbers.
LEMMA InvGivesOrder ==
  ASSUME OutputInv
  PROVE  OutputInOrder
<1> DEFINE first == written - Len(txbuf)
           m     == Len(fifo)
           t     == Len(txbuf)
           out   == fifo \o <<starter.c>> \o txbuf
<1>0. OutputTypes /\ FifoInv /\ NumberInv
  BY Zenon DEF OutputInv
<1>1. /\ fifo \in Seq(Nat) /\ txbuf \in Seq(Nat) /\ starter.c \in Nat
      /\ m \in Nat /\ t \in Nat /\ written \in Nat /\ sent \in Nat
  BY <1>0 DEF OutputTypes
<1>2. /\ first \in Nat
      /\ \A k \in 1..t : txbuf[k] = first + k
      /\ starter.c # 0 => starter.c = first
      /\ \A i \in 1..m : fifo[i] # 0 => fifo[i] = first
      /\ IF starter.c # 0 \/ \E i \in 1..m : fifo[i] # 0
         THEN first = sent + 1 ELSE first = sent
  <2>1. DOMAIN fifo = 1..m
    BY ONLY <1>1
  <2> QED
    BY Zenon, <1>0, <2>1 DEF NumberInv
<1>3. /\ starter.c # 0 => \A i \in 1..m : fifo[i] = 0
      /\ \A i, j \in 1..m : fifo[i] # 0 /\ fifo[j] # 0 => i = j
  <2>1. DOMAIN fifo = 1..m
    BY ONLY <1>1
  <2> QED
    BY Zenon, <1>0, <2>1 DEF FifoInv
<1>4. /\ DOMAIN out = 1..(m + 1 + t)
      /\ \A i \in 1..m : out[i] = fifo[i]
      /\ out[m + 1] = starter.c
      /\ \A k \in 1..t : out[m + 1 + k] = txbuf[k]
  BY ONLY <1>1
<1>5. written = first + t
  BY ONLY <1>1
<1> HIDE DEF first, m, t, out
<1>6. \A i \in DOMAIN out : i > m + 1 => i - (m + 1) \in 1..t /\ out[i] = first + (i - (m + 1))
  <2> SUFFICES ASSUME NEW i \in DOMAIN out, i > m + 1
               PROVE  i - (m + 1) \in 1..t /\ out[i] = first + (i - (m + 1))
    BY Zenon
  <2>1. i - (m + 1) \in 1..t /\ m + 1 + (i - (m + 1)) = i
    BY <1>1, <1>4
  <2> QED
    BY Zenon, <1>2, <1>4, <2>1
<1>7. \A i \in DOMAIN out : i <= m + 1 /\ out[i] # 0 => out[i] = first /\ first = sent + 1
  <2>1. \A i \in DOMAIN out : i <= m + 1 => i \in 1..m \/ i = m + 1
    BY ONLY <1>1, <1>4
  <2>2. starter.c # 0 \/ (\E i \in 1..m : fifo[i] # 0) => first = sent + 1
    BY Zenon, <1>2
  <2> SUFFICES ASSUME NEW i \in DOMAIN out, i <= m + 1, out[i] # 0
               PROVE  out[i] = first /\ first = sent + 1
    BY Zenon
  <2>3. CASE i \in 1..m
    BY Zenon, <1>2, <1>4, <2>2, <2>3
  <2>4. CASE i = m + 1
    BY Zenon, <1>2, <1>4, <2>2, <2>4
  <2> QED
    BY Zenon, <2>1, <2>3, <2>4
<1>8. \A i, j \in DOMAIN out : i <= m + 1 /\ j <= m + 1 /\ out[i] # 0 /\ out[j] # 0 => i = j
  <2>1. \A i \in DOMAIN out : i <= m + 1 => i \in 1..m \/ i = m + 1
    BY ONLY <1>1, <1>4
  <2> QED
    BY Zenon, <1>3, <1>4, <2>1
<1>9. first = sent + 1 => \E i \in DOMAIN out : out[i] = first
  <2> HAVE first = sent + 1
  <2>1. starter.c # 0 \/ \E i \in 1..m : fifo[i] # 0
    BY <1>1, <1>2
  <2>2. m + 1 \in DOMAIN out /\ 1..m \subseteq DOMAIN out
    BY ONLY <1>1, <1>4
  <2> QED
    BY Zenon, <1>2, <1>4, <2>1, <2>2
<1>10. first = sent \/ first = sent + 1
  BY Zenon, <1>2
<1>11. \A i, j \in DOMAIN out : i < j /\ out[i] # 0 /\ out[j] # 0 => out[i] < out[j]
  <2> SUFFICES ASSUME NEW i \in DOMAIN out, NEW j \in DOMAIN out, i < j, out[i] # 0, out[j] # 0
               PROVE  out[i] < out[j]
    BY Zenon
  <2>1. i \in Nat /\ j \in Nat /\ DOMAIN out \subseteq Nat
    BY <1>1, <1>4
  <2>2. CASE j <= m + 1
    <3>1. i <= m + 1 /\ i # j
      BY <1>1, <2>1, <2>2
    <3> QED
      BY Zenon, <1>8, <2>2, <3>1
  <2>3. CASE j > m + 1 /\ i > m + 1
    <3>1. out[i] = first + (i - (m + 1)) /\ out[j] = first + (j - (m + 1))
      BY Zenon, <1>6, <2>3
    <3> QED
      BY ONLY <1>1, <1>2, <2>1, <3>1, i < j
  <2>4. CASE j > m + 1 /\ i <= m + 1
    <3>1. out[i] = first /\ out[j] = first + (j - (m + 1))
      BY Zenon, <1>6, <1>7, <2>4
    <3> QED
      BY ONLY <1>1, <1>2, <2>1, <2>4, <3>1
  <2> QED
    BY ONLY <1>1, <2>1, <2>2, <2>3, <2>4
<1>12. {out[i] : i \in DOMAIN out} \ {0} \subseteq (sent + 1)..written
  <2> SUFFICES ASSUME NEW i \in DOMAIN out, out[i] # 0
               PROVE  out[i] \in (sent + 1)..written
    BY Zenon
  <2>1. i \in Nat
    BY <1>1, <1>4
  <2>2. CASE i <= m + 1
    <3>1. out[i] = first /\ first = sent + 1
      BY Zenon, <1>7, <2>2
    <3> QED
      BY ONLY <1>1, <1>2, <1>5, <3>1
  <2>3. CASE i > m + 1
    <3>1. i - (m + 1) \in 1..t /\ out[i] = first + (i - (m + 1))
      BY Zenon, <1>6, <2>3
    <3> QED
      BY ONLY <1>1, <1>2, <1>5, <1>10, <3>1
  <2> QED
    BY <1>1, <2>1, <2>2, <2>3
<1>13. (sent + 1)..written \subseteq {out[i] : i \in DOMAIN out} \ {0}
  <2> SUFFICES ASSUME NEW x \in (sent + 1)..written
               PROVE  x # 0 /\ \E i \in DOMAIN out : out[i] = x
    BY Zenon
  <2>1. x \in Nat /\ x # 0
    BY <1>1
  <2>2. CASE x > first
    <3>1. x - first \in 1..t /\ first + (x - first) = x
      BY <1>1, <1>2, <1>5, <2>1, <2>2
    <3>2. m + 1 + (x - first) \in DOMAIN out
      BY ONLY <1>1, <1>4, <3>1
    <3> QED
      BY Zenon, <1>2, <1>4, <2>1, <3>1, <3>2
  <2>3. CASE x <= first
    <3>1. first = sent + 1 /\ x = first
      BY <1>1, <1>2, <1>10, <2>1, <2>3
    <3> QED
      BY Zenon, <1>9, <2>1, <3>1
  <2> QED
    BY <1>2, <2>1, <2>2, <2>3
<1>14. {out[i] : i \in DOMAIN out} \ {0} = (sent + 1)..written
  BY Zenon, <1>12, <1>13
<1> QED
  BY Zenon, <1>11, <1>14 DEF OutputInOrder, out

\* The characters that processes write to the console leave it once each and
\* in the order in which uartputc() took them, for every number of writers:
\* uartputc_sync(), which echoes without uart_tx_lock, never makes the device
\* drop one.
THEOREM ConsoleOutput == ConsoleSpec => []OutputInOrder
<1>1. ConsoleInit => OutputInv
  BY Zenon, OutputInit
<1>2. OutputInv /\ [ConsoleNext]_cvars => OutputInv'
  BY Zenon, OutputNext
<1>3. OutputInv => OutputInOrder
  BY Zenon, InvGivesOrder
<1> QED
  BY <1>1, <1>2, <1>3, PTL DEF ConsoleSpec

-----------------------------------------------------------------------------
(* Input: every step keeps InputInv.                                       *)

\* Counts that are at most a buffer apart, for the lemmas on indices.
LEMMA CountsNear ==
  ASSUME NEW R \in Nat, NEW W \in Nat, NEW E \in Nat, CountInv(R, W, E)
  PROVE  /\ R <= W /\ W <= E /\ R <= E
         /\ W <= R + INPUT_BUF_SIZE /\ E <= W + INPUT_BUF_SIZE
         /\ E <= R + INPUT_BUF_SIZE
         /\ W < R + UINTMOD /\ E < W + UINTMOD /\ E < R + UINTMOD
  BY Sizes DEF CountInv

\* A step that leaves the buffer and the readers alone.
LEMMA InputMoves ==
  ASSUME InputInv, UNCHANGED <<cons, rpc, want, got, killedR>>,
         hpc' \in {"idle", "getc", "start"} \cup Handling,
         ch' \in Chars \cup {BS, KILL}, rx' \in Seq(Chars \cup {BS, KILL}),
         hpc' \in {"echo", "send"} /\ ch' \in Chars =>
           hpc \in {"echo", "send"} /\ ch' = ch
  PROVE  InputInv'
<1>1. InputTypes'
  BY Zenon DEF InputInv, InputTypes
<1>2. WantInv'
  BY Zenon DEF InputInv, WantInv
<1>3. PICK R \in Nat, W \in Nat, E \in Nat : CountInv(R, W, E)
  BY Zenon DEF InputInv
<1>4. CountInv(R, W, E)'
  BY Zenon, <1>3 DEF CountInv
<1> QED
  BY Zenon, <1>1, <1>2, <1>4 DEF InputInv

\* consoleread() begins.
LEMMA ReadKeeps ==
  ASSUME InputInv, NEW p \in Readers, NEW n \in 1..INPUT_BUF_SIZE, Read(p, n)
  PROVE  InputInv'
<1>a. /\ rpc' = [rpc EXCEPT ![p] = "loop"] /\ want' = [want EXCEPT ![p] = n]
      /\ got' = [got EXCEPT ![p] = FALSE]
      /\ UNCHANGED <<cons, killedR, hpc, ch, rx>>
  BY Zenon DEF Read
<1>b. n \in Nat /\ n # 0
  BY Sizes
<1>1. InputTypes'
  BY Zenon, <1>a, <1>b DEF InputInv, InputTypes
<1>2. WantInv'
  BY Zenon, <1>a, <1>b DEF InputInv, InputTypes, WantInv
<1>3. PICK R \in Nat, W \in Nat, E \in Nat : CountInv(R, W, E)
  BY Zenon DEF InputInv
<1>4. \A q \in Readers : rpc'[q] = "asleep" => rpc[q] = "asleep"
  BY Zenon, <1>a DEF InputInv, InputTypes
<1>5. CountInv(R, W, E)'
  BY Zenon, <1>a, <1>3, <1>4 DEF CountInv
<1> QED
  BY Zenon, <1>1, <1>2, <1>5 DEF InputInv

\* kill() makes a sleeping reader look again.
LEMMA KillKeeps ==
  ASSUME InputInv, NEW p \in Readers, KillReader(p)
  PROVE  InputInv'
<1>a. /\ killedR' = killedR \cup {p} /\ rpc[p] # "idle"
      /\ rpc' = [rpc EXCEPT ![p] = IF @ = "asleep" THEN "loop" ELSE @]
      /\ UNCHANGED <<cons, want, got, hpc, ch, rx>>
  BY Zenon DEF KillReader
<1>1. InputTypes'
  BY Zenon, <1>a DEF InputInv, InputTypes
<1>2. WantInv'
  BY Zenon, <1>a DEF InputInv, InputTypes, WantInv
<1>3. PICK R \in Nat, W \in Nat, E \in Nat : CountInv(R, W, E)
  BY Zenon DEF InputInv
<1>4. \A q \in Readers : rpc'[q] = "asleep" => rpc[q] = "asleep"
  BY Zenon, <1>a DEF InputInv, InputTypes
<1>5. CountInv(R, W, E)'
  BY Zenon, <1>a, <1>3, <1>4 DEF CountInv
<1> QED
  BY Zenon, <1>1, <1>2, <1>5 DEF InputInv

\* consoleintr() has a character; one to be stored finds room.
LEMMA GetcKeeps ==
  ASSUME InputInv, Getc
  PROVE  InputInv'
<1>0. InputTypes
  BY Zenon DEF InputInv
<1>a. /\ hpc = "getc" /\ ch' = Head(rx) /\ rx' = Tail(rx) /\ rx # <<>>
      /\ hpc' = IF Head(rx) \in {BS, KILL}
                THEN IF cons.e = cons.w THEN "getc" ELSE "erase"
                ELSE IF Minus(cons.e, cons.r) < INPUT_BUF_SIZE THEN "echo"
                ELSE "getc"
      /\ UNCHANGED <<cons, rpc, want, got, killedR>>
  BY Zenon DEF Getc, input
<1>b. /\ ch' \in Chars \cup {BS, KILL} /\ rx' \in Seq(Chars \cup {BS, KILL})
  BY <1>0, <1>a DEF InputTypes
<1>c. hpc' \in {"getc", "erase", "echo"}
  BY Zenon, <1>a
<1>1. InputTypes'
  BY Zenon, <1>0, <1>a, <1>b, <1>c DEF InputTypes, Handling
<1>2. WantInv'
  BY Zenon, <1>a DEF InputInv, WantInv
<1>3. PICK R \in Nat, W \in Nat, E \in Nat : CountInv(R, W, E)
  BY Zenon DEF InputInv
<1>4. hpc' \in {"echo", "send"} /\ ch' \in Chars => E < R + INPUT_BUF_SIZE
  <2>1. hpc' \in {"echo", "send"} => Minus(cons.e, cons.r) < INPUT_BUF_SIZE
    BY Zenon, <1>a
  <2>2. Minus(cons.e, cons.r) = E - R
    <3>1. R <= E /\ E < R + UINTMOD
      BY Zenon, <1>3, CountsNear
    <3> QED
      BY Zenon, <1>3, <3>1, MinusCount DEF CountInv
  <2> QED
    BY <2>1, <2>2, Sizes
<1>5. CountInv(R, W, E)'
  BY Zenon, <1>a, <1>3, <1>4 DEF CountInv
<1> QED
  BY Zenon, <1>1, <1>2, <1>5 DEF InputInv

\* Backspace and ^U take characters back, but none of a complete line.
LEMMA EraseCounts ==
  ASSUME InputInv, Erase, NEW R \in Nat, NEW W \in Nat, NEW E \in Nat,
         CountInv(R, W, E)
  PROVE  /\ InputInv'
         /\ \/ UNCHANGED cons
            \/ W < E /\ cons' = [cons EXCEPT !.e = (E - 1) % UINTMOD]
                     /\ CountInv(R, W, E - 1)'
<1>0. InputTypes /\ WantInv
  BY Zenon DEF InputInv
<1>a. UNCHANGED <<rpc, want, got, killedR, ch, rx>>
  BY Zenon DEF Erase
<1>1. CASE cons' = cons /\ hpc' = "getc"
  <2>1. /\ hpc' \in {"idle", "getc", "start"} \cup Handling
        /\ hpc' \notin {"echo", "send"}
    BY Zenon, <1>1
  <2> QED
    BY Zenon, <1>0, <1>1, <1>a, <2>1, InputMoves DEF InputTypes
<1>2. CASE cons.e # cons.w /\ cons' = [cons EXCEPT !.e = Dec(@)] /\ hpc' = "echo"
  <2>1. W < E /\ E \in Nat \ {0}
    <3>1. W # E
      BY Zenon, <1>2 DEF CountInv
    <3> QED
      BY <3>1 DEF CountInv
  <2>2. Dec(cons.e) = (E - 1) % UINTMOD /\ E - 1 \in Nat
    <3>1. E - 1 \in Nat
      BY <2>1
    <3> QED
      BY Zenon, <2>1, <3>1, DecCount DEF CountInv
  <2>3. (E - 1) % UINTMOD \in Index
    BY Zenon, <2>2, IncCount
  <2>4. /\ cons' = [cons EXCEPT !.e = (E - 1) % UINTMOD]
        /\ cons'.e = (E - 1) % UINTMOD /\ cons'.r = cons.r /\ cons'.w = cons.w
        /\ cons' \in [buf : [0..(INPUT_BUF_SIZE - 1) -> Chars],
                      r : Index, w : Index, e : Index]
    BY Zenon, <1>0, <1>2, <2>2, <2>3 DEF InputTypes
  <2>5. InputTypes' /\ WantInv'
    BY Zenon, <1>0, <1>2, <1>a, <2>4 DEF InputTypes, Handling, WantInv
  <2>6. R <= W /\ W <= E - 1 /\ E - 1 <= R + INPUT_BUF_SIZE
        /\ E - 1 # R + INPUT_BUF_SIZE /\ E - 1 < R + INPUT_BUF_SIZE
    BY <2>1, Sizes DEF CountInv
  <2>7. CountInv(R, W, E - 1)'
    BY Zenon, <1>a, <2>4, <2>6 DEF CountInv
  <2> QED
    BY Zenon, <2>1, <2>2, <2>4, <2>5, <2>7 DEF InputInv
<1> QED
  BY Zenon, <1>1, <1>2 DEF Erase

\* consoleintr() stores a character; if it completes a line or fills the
\* buffer, no reader stays asleep.
LEMMA StoreCounts ==
  ASSUME InputInv, Store, NEW R \in Nat, NEW W \in Nat, NEW E \in Nat,
         CountInv(R, W, E)
  PROVE  /\ InputInv' /\ ch \in Chars /\ E < R + INPUT_BUF_SIZE
         /\ cons'.buf = [cons.buf EXCEPT ![Cell(E)] = ch]
         /\ IF ch \in {NL, EOF} \/ E + 1 = R + INPUT_BUF_SIZE
            THEN CountInv(R, E + 1, E + 1)' ELSE CountInv(R, W, E + 1)'
<1> DEFINE full == ch \in {NL, EOF} \/ E + 1 = R + INPUT_BUF_SIZE
<1>0. InputTypes /\ WantInv
  BY Zenon DEF InputInv
<1>a. /\ hpc = "send" /\ ch \in Chars /\ hpc' = "getc" /\ E + 1 \in Nat
      /\ UNCHANGED <<want, got, killedR, ch, rx>>
  BY DEF Store
<1>b. E < R + INPUT_BUF_SIZE
  BY Zenon, <1>a DEF CountInv
<1>c. Inc(cons.e) = (E + 1) % UINTMOD /\ (E + 1) % UINTMOD \in Index
  BY Zenon, <1>a, IncCount DEF CountInv
<1>d. Minus((E + 1) % UINTMOD, cons.r) = E + 1 - R
  <2>1. R <= E + 1 /\ E + 1 < R + UINTMOD
    BY <1>b, CountsNear, Sizes
  <2>2. Minus((E + 1) % UINTMOD, R % UINTMOD) = E + 1 - R
    BY <1>a, <2>1, MinusCount
  <2> QED
    BY Zenon, <2>2 DEF CountInv
<1>e. LineCompleteAt(ch, Inc(cons.e)) <=> full
  <2>1. E + 1 - R = INPUT_BUF_SIZE <=> E + 1 = R + INPUT_BUF_SIZE
    BY Sizes
  <2> QED
    BY Zenon, <1>c, <1>d, <2>1 DEF LineCompleteAt
<1>f. Cell(cons.e) = Cell(E) /\ Cell(E) \in 0..(INPUT_BUF_SIZE - 1)
  BY Zenon, CellCount DEF CountInv
<1> HIDE DEF full
<1>g. /\ cons' = [cons EXCEPT !.buf[Cell(E)] = ch, !.e = (E + 1) % UINTMOD,
                              !.w = IF full THEN (E + 1) % UINTMOD ELSE @]
      /\ rpc' = IF full THEN WakeReaders ELSE rpc
  BY Zenon, <1>c, <1>e, <1>f DEF Store
<1>h. /\ cons'.buf = [cons.buf EXCEPT ![Cell(E)] = ch]
      /\ cons'.r = R % UINTMOD /\ cons'.e = (E + 1) % UINTMOD
      /\ cons'.w = IF full THEN (E + 1) % UINTMOD ELSE W % UINTMOD
      /\ cons' \in [buf : [0..(INPUT_BUF_SIZE - 1) -> Chars],
                    r : Index, w : Index, e : Index]
  BY Zenon, <1>0, <1>a, <1>c, <1>f, <1>g DEF InputTypes, CountInv
<1>i. PICK W1 \in Nat : W1 = IF full THEN E + 1 ELSE W
  BY Zenon, <1>a
<1>j. cons'.w = W1 % UINTMOD
  BY Zenon, <1>h, <1>i
<1>1. InputTypes'
  BY Zenon, <1>0, <1>a, <1>g, <1>h DEF InputTypes, Handling, WakeReaders
<1>2. WantInv'
  BY Zenon, <1>0, <1>a, <1>g DEF WantInv, WakeReaders
<1>3. \A p \in Readers : rpc'[p] = "asleep" => ~full /\ rpc[p] = "asleep"
  BY Zenon, <1>g DEF WakeReaders
<1>4. /\ R <= W1 /\ W1 <= E + 1 /\ E + 1 <= R + INPUT_BUF_SIZE
      /\ E + 1 = R + INPUT_BUF_SIZE => W1 = E + 1
  BY <1>b, <1>i, CountsNear, Sizes DEF full
<1>5. CountInv(R, W1, E + 1)'
  <2>1. \A p \in Readers : rpc'[p] = "asleep" => R = W1
    BY Zenon, <1>3, <1>i DEF CountInv
  <2>2. hpc' \notin {"echo", "send"}
    BY Zenon, <1>a
  <2> QED
    BY Zenon, <1>h, <1>j, <1>4, <2>1, <2>2 DEF CountInv
<1>6. InputInv'
  BY Zenon, <1>a, <1>1, <1>2, <1>5 DEF InputInv
<1> QED
  BY Zenon, <1>a, <1>b, <1>h, <1>i, <1>5, <1>6 DEF full

\* A set of numbers that is not empty has a least one.
LEMMA LeastNat ==
  ASSUME NEW S \in SUBSET Nat, S # {}
  PROVE  \E i \in S : \A j \in S : i <= j
<1>1. \E i \in S : \A j \in S : ~(<<j, i>> \in OpToRel(<, Nat))
  BY Zenon, WFMin, NatLessThanWellFounded
<1>2. PICK i \in S : \A j \in S : ~(<<j, i>> \in OpToRel(<, Nat))
  BY Zenon, <1>1
<1>3. \A j \in S : ~(j < i)
  BY Zenon, <1>2 DEF OpToRel
<1> QED
  BY <1>3

\* consoleread() takes at least a character and none beyond the end of a line.
LEMMA UptoTakes ==
  ASSUME NEW line \in Seq(Chars), line # <<>>, NEW k \in Nat \ {0}
  PROVE  /\ Upto(line, k) \in 1..Len(line) /\ Upto(line, k) <= k
         /\ \A i \in 1..(Upto(line, k) - 1) : line[i] \notin {NL, EOF}
<1> DEFINE S == Stops(line)
<1>1. DOMAIN line = 1..Len(line) /\ Len(line) \in Nat \ {0}
  OBVIOUS
<1>2. S \subseteq 1..Len(line) /\ S \in SUBSET Nat
  BY <1>1 DEF Stops
<1>3. \A i \in 1..Len(line) : line[i] \in {NL, EOF} => i \in S
  BY Zenon, <1>1 DEF Stops
<1> HIDE DEF S
<1>4. CASE \E i \in S : i <= k
  <2> DEFINE n == CHOOSE i \in S : \A j \in S : i <= j
  <2>1. Upto(line, k) = n
    BY Zenon, <1>4 DEF Upto, S
  <2>2. n \in S /\ \A j \in S : n <= j
    BY Zenon, <1>2, <1>4, LeastNat
  <2> HIDE DEF n
  <2>3. n \in 1..Len(line) /\ n <= k
    BY <1>1, <1>2, <1>4, <2>2
  <2>4. ASSUME NEW i \in 1..(n - 1) PROVE line[i] \notin {NL, EOF}
    <3>1. i \in 1..Len(line) /\ ~(n <= i)
      BY <1>1, <2>3
    <3> QED
      BY Zenon, <1>3, <2>2, <3>1
  <2> QED
    BY Zenon, <2>1, <2>3, <2>4
<1>5. CASE ~\E i \in S : i <= k
  <2> DEFINE n == IF k < Len(line) THEN k ELSE Len(line)
  <2>1. Upto(line, k) = n
    BY Zenon, <1>5 DEF Upto, S
  <2>2. n \in 1..Len(line) /\ n <= k
    BY <1>1
  <2> HIDE DEF n
  <2>3. ASSUME NEW i \in 1..(n - 1) PROVE line[i] \notin {NL, EOF}
    <3>1. i \in 1..Len(line) /\ i <= k
      BY <1>1, <2>2
    <3> QED
      BY Zenon, <1>3, <1>5, <3>1
  <2> QED
    BY Zenon, <2>1, <2>2, <2>3
<1> QED
  BY Zenon, <1>4, <1>5

\* An end-of-file that is not alone is left for the next read.
LEMMA PushBackTakes ==
  ASSUME NEW line \in Seq(Chars), NEW n \in 1..Len(line), NEW any \in BOOLEAN,
         \A i \in 1..(n - 1) : line[i] \notin {NL, EOF}
  PROVE  /\ PushBack(line, n, any) \in 0..n
         /\ \A i \in 1..(PushBack(line, n, any) - 1) : line[i] \notin {NL, EOF}
         /\ PushBack(line, n, any) # 0 /\ line[PushBack(line, n, any)] = EOF
              => PushBack(line, n, any) = 1
<1>1. CASE line[n] = EOF /\ (n > 1 \/ any)
  <2>1. PushBack(line, n, any) = n - 1
    BY Zenon, <1>1 DEF PushBack
  <2>2. n - 1 # 0 => n - 1 \in 1..(n - 1)
    OBVIOUS
  <2>3. n - 1 # 0 => line[n - 1] # EOF
    BY Zenon, <2>2
  <2>4. n - 1 \in 0..n /\ \A i \in 1..(n - 1 - 1) : i \in 1..(n - 1)
    OBVIOUS
  <2> QED
    BY Zenon, <2>1, <2>3, <2>4
<1>2. CASE ~(line[n] = EOF /\ (n > 1 \/ any))
  <2>1. PushBack(line, n, any) = n
    BY Zenon, <1>2 DEF PushBack
  <2>2. n \in 0..n /\ (n > 1 \/ n = 1)
    OBVIOUS
  <2> QED
    BY Zenon, <1>2, <2>1, <2>2
<1> QED
  BY Zenon, <1>1, <1>2

\* What the ring holds, and its parts in terms of the counts.
LEMMA RingSpans ==
  ASSUME NEW R \in Nat, NEW W \in Nat, NEW E \in Nat, CountInv(R, W, E)
  PROVE  /\ Ring(cons.r, cons.w) = Span(cons.buf, R, W)
         /\ Ring(cons.w, cons.e) = Span(cons.buf, W, E)
<1>1. /\ R <= W /\ W <= E
      /\ W <= R + INPUT_BUF_SIZE /\ E <= W + INPUT_BUF_SIZE
  BY Zenon, CountsNear
<1>2. /\ Minus(W % UINTMOD, R % UINTMOD) = W - R
      /\ \A i \in 1..(W - R) :
           Cell(((R % UINTMOD) + i - 1) % UINTMOD) = Cell(R + i - 1)
  BY Zenon, <1>1, RingCount
<1>3. /\ Minus(E % UINTMOD, W % UINTMOD) = E - W
      /\ \A i \in 1..(E - W) :
           Cell(((W % UINTMOD) + i - 1) % UINTMOD) = Cell(W + i - 1)
  BY Zenon, <1>1, RingCount
<1>4. cons.r = R % UINTMOD /\ cons.w = W % UINTMOD /\ cons.e = E % UINTMOD
  BY Zenon DEF CountInv
<1>5. Ring(R % UINTMOD, W % UINTMOD) = Span(cons.buf, R, W)
  BY Zenon, <1>2 DEF Ring, Span
<1>6. Ring(W % UINTMOD, E % UINTMOD) = Span(cons.buf, W, E)
  BY Zenon, <1>3 DEF Ring, Span
<1> QED
  BY Zenon, <1>4, <1>5, <1>6

\* The same after a step.
LEMMA RingSpansNext ==
  ASSUME NEW R \in Nat, NEW W \in Nat, NEW E \in Nat, CountInv(R, W, E)'
  PROVE  /\ Ring(cons.r, cons.w)' = Span(cons'.buf, R, W)
         /\ Ring(cons.w, cons.e)' = Span(cons'.buf, W, E)
<1>1. /\ R <= W /\ W <= E
      /\ W <= R + INPUT_BUF_SIZE /\ E <= W + INPUT_BUF_SIZE
  BY Sizes DEF CountInv
<1>2. /\ Minus(W % UINTMOD, R % UINTMOD) = W - R
      /\ \A i \in 1..(W - R) :
           Cell(((R % UINTMOD) + i - 1) % UINTMOD) = Cell(R + i - 1)
  BY Zenon, <1>1, RingCount
<1>3. /\ Minus(E % UINTMOD, W % UINTMOD) = E - W
      /\ \A i \in 1..(E - W) :
           Cell(((W % UINTMOD) + i - 1) % UINTMOD) = Cell(W + i - 1)
  BY Zenon, <1>1, RingCount
<1>4. cons'.r = R % UINTMOD /\ cons'.w = W % UINTMOD /\ cons'.e = E % UINTMOD
  BY Zenon DEF CountInv
<1>5. Ring(cons.r, cons.w)' = Span(cons'.buf, R, W)
  BY Zenon, <1>2, <1>4 DEF Ring, Span
<1>6. Ring(cons.w, cons.e)' = Span(cons'.buf, W, E)
  BY Zenon, <1>3, <1>4 DEF Ring, Span
<1> QED
  BY Zenon, <1>5, <1>6

\* A turn of consoleread()'s loop finds nothing and sleeps or gives up, or
\* takes m characters, which may be none if it leaves an end-of-file.
LEMMA ReadLoopCounts ==
  ASSUME InputInv, NEW p \in Readers, ReadLoop(p),
         NEW R \in Nat, NEW W \in Nat, NEW E \in Nat, CountInv(R, W, E)
  PROVE  /\ InputInv'
         /\ \/ UNCHANGED cons
            \/ \E m \in 1..(W - R) :
                 /\ cons'.buf = cons.buf /\ CountInv(R + m, W, E)'
                 /\ \A i \in 1..(m - 1) :
                      Span(cons.buf, R, W)[i] \notin {NL, EOF}
                 /\ Span(cons.buf, R, W)[m] = EOF => m = 1
<1> DEFINE line == Span(cons.buf, R, W)
<1>0. InputTypes /\ WantInv
  BY Zenon DEF InputInv
<1>a. /\ Ring(cons.r, cons.w) = line
      /\ line \in Seq(Chars) /\ Len(line) = W - R
  BY Zenon, <1>0, RingSpans, SpanSeq, CountsNear DEF InputTypes
<1> HIDE DEF line
<1>b. /\ rpc[p] = "loop" /\ hpc \notin Handling
      /\ UNCHANGED <<killedR, hpc, ch, rx>>
  BY Zenon DEF ReadLoop, ConsFree
<1>c. want[p] \in Nat \ {0} /\ got[p] \in BOOLEAN
  <2>1. want[p] \in Nat /\ got[p] \in BOOLEAN
    BY Zenon, <1>0 DEF InputTypes
  <2>2. rpc[p] # "idle"
    BY Zenon, <1>b
  <2> QED
    BY Zenon, <1>0, <2>1, <2>2 DEF WantInv
<1>d. hpc' \notin {"echo", "send"} /\ R <= W
  BY Zenon, <1>b DEF Handling, CountInv
<1>1. CASE line = <<>>
  <2>a. /\ rpc' = [rpc EXCEPT ![p] = IF p \in killedR THEN "idle" ELSE "asleep"]
        /\ UNCHANGED <<cons, want, got>>
    BY Zenon, <1>1, <1>a DEF ReadLoop
  <2>b. R = W
    BY <1>a, <1>1
  <2>1. InputTypes' /\ WantInv'
    BY Zenon, <1>0, <1>b, <1>c, <2>a DEF InputTypes, WantInv
  <2>2. CountInv(R, W, E)'
    BY Zenon, <1>b, <2>a, <2>b DEF CountInv
  <2> QED
    BY Zenon, <2>a, <2>1, <2>2 DEF InputInv
<1>2. CASE line # <<>>
  <2> DEFINE n == Upto(line, want[p])
             m == PushBack(line, n, got[p])
             done == n \in Stops(line) \/ n = want[p]
  <2>1. /\ n \in 1..Len(line) /\ n <= want[p]
        /\ \A i \in 1..(n - 1) : line[i] \notin {NL, EOF}
    BY Zenon, <1>2, <1>a, <1>c, UptoTakes
  <2> HIDE DEF n
  <2>2. /\ m \in 0..n /\ \A i \in 1..(m - 1) : line[i] \notin {NL, EOF}
        /\ m # 0 /\ line[m] = EOF => m = 1
    BY Zenon, <1>a, <1>c, <2>1, PushBackTakes
  <2>3. /\ cons' = [cons EXCEPT !.r = (@ + m) % UINTMOD]
        /\ rpc' = [rpc EXCEPT ![p] = IF done THEN "idle" ELSE "loop"]
        /\ want' = [want EXCEPT ![p] = IF done THEN 0 ELSE @ - n]
        /\ got' = [got EXCEPT ![p] = ~done]
    BY Zenon, <1>2, <1>a DEF ReadLoop, n
  <2>4. PICK d \in BOOLEAN : d = done
    BY Zenon
  <2>5. PICK k \in Nat : k = m /\ k <= n
    BY <2>1, <2>2
  <2>6. n \in Nat /\ n \in 1..(W - R) /\ (~d => n < want[p] /\ want[p] - n \in Nat \ {0})
    <3>1. ~d => n # want[p]
      BY Zenon, <2>4
    <3> QED
      BY ONLY <1>a, <1>c, <2>1, <3>1
  <2>7. /\ rpc' = [rpc EXCEPT ![p] = IF d THEN "idle" ELSE "loop"]
        /\ want' = [want EXCEPT ![p] = IF d THEN 0 ELSE @ - n]
        /\ got' = [got EXCEPT ![p] = ~d]
        /\ cons' = [cons EXCEPT !.r = (@ + k) % UINTMOD]
    BY Zenon, <2>3, <2>4, <2>5
  <2> HIDE DEF m, done
  <2>8. (cons.r + k) % UINTMOD = (R + k) % UINTMOD /\ (R + k) % UINTMOD \in Index
    <3>1. R + k \in Nat /\ UINTMOD \in Nat \ {0}
      BY Sizes
    <3>2. ((R % UINTMOD) + k) % UINTMOD = (R + k) % UINTMOD
      BY Zenon, <3>1, ModAdd
    <3>3. (R + k) % UINTMOD \in Index
      BY Zenon, <3>1, IncCount
    <3> QED
      BY Zenon, <3>2, <3>3 DEF CountInv
  <2>9. /\ cons'.r = (R + k) % UINTMOD /\ cons'.w = cons.w /\ cons'.e = cons.e
        /\ cons'.buf = cons.buf
        /\ cons' \in [buf : [0..(INPUT_BUF_SIZE - 1) -> Chars],
                      r : Index, w : Index, e : Index]
    BY Zenon, <1>0, <2>7, <2>8 DEF InputTypes
  <2>10. InputTypes'
    <3>1. want' \in [Readers -> Nat]
      BY Zenon, <1>0, <2>6, <2>7 DEF InputTypes
    <3>2. rpc' \in [Readers -> {"idle", "loop", "asleep"}] /\ got' \in [Readers -> BOOLEAN]
      BY Zenon, <1>0, <2>7 DEF InputTypes
    <3> QED
      BY Zenon, <1>0, <1>b, <2>9, <3>1, <3>2 DEF InputTypes
  <2>11. WantInv'
    BY Zenon, <1>0, <2>6, <2>7 DEF InputTypes, WantInv
  <2>12. /\ R + k <= W /\ E <= R + k + INPUT_BUF_SIZE /\ R # W /\ R + k \in Nat
         /\ E = R + k + INPUT_BUF_SIZE => W = E
    BY <1>d, <2>5, <2>6, Sizes DEF CountInv
  <2>13. \A q \in Readers : rpc'[q] # "asleep"
    BY Zenon, <1>0, <2>7, <2>12 DEF InputTypes, CountInv
  <2>14. CountInv(R + k, W, E)'
    BY Zenon, <1>d, <2>9, <2>12, <2>13 DEF CountInv
  <2>15. InputInv'
    BY Zenon, <2>10, <2>11, <2>12, <2>14 DEF InputInv
  <2>16. CASE k = 0
    <3>1. (R + 0) % UINTMOD = cons.r
      <4>1. R + 0 = R
        OBVIOUS
      <4> QED
        BY Zenon, <4>1 DEF CountInv
    <3>2. cons' = cons
      BY Zenon, <1>0, <2>7, <2>8, <2>16, <3>1 DEF InputTypes
    <3> QED
      BY Zenon, <2>15, <3>2
  <2>17. CASE k # 0
    <3>1. k \in 1..(W - R)
      BY <1>d, <2>12, <2>17
    <3>2. /\ \A i \in 1..(k - 1) : line[i] \notin {NL, EOF}
          /\ line[k] = EOF => k = 1
      BY Zenon, <2>2, <2>5, <2>17
    <3> QED
      BY Zenon, <2>9, <2>14, <2>15, <3>1, <3>2 DEF line
  <2> QED
    BY Zenon, <2>16, <2>17
<1> QED
  BY Zenon, <1>1, <1>2

\* consoleinit() leaves the ring empty, at whatever index it starts.
LEMMA InputInit ==
  ASSUME ConsoleInit
  PROVE  InputInv /\ CountInv(FirstIndex, FirstIndex, FirstIndex) /\ FirstIndex \in Nat
<1>1. /\ cons = [buf |-> [k \in 0..(INPUT_BUF_SIZE - 1) |-> NL],
                 r |-> FirstIndex, w |-> FirstIndex, e |-> FirstIndex]
      /\ rpc = [p \in Readers |-> "idle"] /\ want = [p \in Readers |-> 0]
      /\ got = [p \in Readers |-> FALSE] /\ killedR = {}
      /\ hpc = "idle" /\ ch = NL /\ rx = <<>>
  BY Zenon DEF ConsoleInit
<1>2. /\ FirstIndex \in Index /\ FirstIndex \in Nat
      /\ FirstIndex = FirstIndex % UINTMOD
      /\ FirstIndex <= FirstIndex + INPUT_BUF_SIZE
  <2>1. FirstIndex \in 0..(UINTMOD - 1) /\ UINTMOD \in Nat \ {0}
    BY Zenon, ConsoleAssumption, Sizes
  <2>2. FirstIndex \in Nat /\ FirstIndex = UINTMOD * 0 + FirstIndex
    BY <2>1
  <2>3. FirstIndex % UINTMOD = FirstIndex
    BY Zenon, <2>1, <2>2, ModUnique
  <2> QED
    BY <2>1, <2>2, <2>3, Sizes DEF Index
<1>3. InputTypes
  <2>1. [buf |-> [k \in 0..(INPUT_BUF_SIZE - 1) |-> NL],
         r |-> FirstIndex, w |-> FirstIndex, e |-> FirstIndex]
          \in [buf : [0..(INPUT_BUF_SIZE - 1) -> Chars],
               r : Index, w : Index, e : Index]
    BY Zenon, <1>2 DEF Chars
  <2>2. rx \in Seq(Chars \cup {BS, KILL}) /\ 0 \in Nat
    BY <1>1
  <2> QED
    BY Zenon, <1>1, <2>1, <2>2 DEF InputTypes, Chars
<1>4. WantInv
  BY Zenon, <1>1 DEF WantInv
<1>5. CountInv(FirstIndex, FirstIndex, FirstIndex)
  BY <1>1, <1>2 DEF CountInv
<1> QED
  BY Zenon, <1>2, <1>3, <1>4, <1>5 DEF InputInv

\* All steps together.
LEMMA InputNext ==
  ASSUME InputInv, [ConsoleNext]_cvars
  PROVE  InputInv'
<1>0. InputTypes
  BY Zenon DEF InputInv
<1>a. PICK R \in Nat, W \in Nat, E \in Nat : CountInv(R, W, E)
  BY Zenon DEF InputInv
<1>1. ASSUME NEW p \in Readers,
             \/ \E n \in 1..INPUT_BUF_SIZE : Read(p, n)
             \/ ReadLoop(p) \/ KillReader(p)
      PROVE  InputInv'
  BY Zenon, <1>1, <1>a, ReadKeeps, ReadLoopCounts, KillKeeps
<1>2. ASSUME NEW p \in Writers, Write(p) \/ Putc(p) PROVE InputInv'
  BY Zenon, <1>0, <1>2, InputMoves DEF Write, Putc, input, InputTypes
<1>3. ASSUME StartTurn PROVE InputInv'
  <2>1. hpc' = hpc \/ hpc' = "idle"
    BY Zenon, <1>3 DEF StartTurn
  <2>2. "idle" \notin {"echo", "send"}
    BY Zenon
  <2> QED
    BY Zenon, <1>0, <1>3, <2>1, <2>2, InputMoves DEF StartTurn, input, InputTypes
<1>4. ASSUME StartWrite \/ Transmit PROVE InputInv'
  BY Zenon, <1>0, <1>4, InputMoves DEF StartWrite, Transmit, input, InputTypes
<1>5. ASSUME NEW c \in Chars \cup {BS, KILL}, Type(c) PROVE InputInv'
  <2>1. <<c>> \in Seq(Chars \cup {BS, KILL})
    OBVIOUS
  <2> QED
    BY Zenon, <1>0, <1>5, <2>1, InputMoves DEF Type, input, InputTypes
<1>6. ASSUME Claim \/ GetcNone PROVE InputInv'
  <2>1. hpc' \in {"getc", "start"} /\ hpc' \notin {"echo", "send"}
    BY Zenon, <1>6 DEF Claim, GetcNone
  <2> QED
    BY Zenon, <1>0, <1>6, <2>1, InputMoves DEF Claim, GetcNone, input, InputTypes
<1>7. ASSUME SyncWait PROVE InputInv'
  BY Zenon, <1>0, <1>7, InputMoves DEF SyncWait, input, InputTypes, Handling
<1>8. ASSUME Erased PROVE InputInv'
  <2>1. hpc' \in {"getc", "erase"} /\ hpc' \notin {"echo", "send"}
    BY Zenon, <1>8 DEF Erased
  <2> QED
    BY Zenon, <1>0, <1>8, <2>1, InputMoves DEF Erased, input, InputTypes, Handling
<1>9. ASSUME Getc \/ Erase \/ Store PROVE InputInv'
  BY Zenon, <1>9, <1>a, GetcKeeps, EraseCounts, StoreCounts
<1>10. ASSUME UNCHANGED cvars PROVE InputInv'
  BY Zenon, <1>0, <1>10, InputMoves DEF cvars, input, InputTypes
<1> QED
  BY Zenon, <1>1, <1>2, <1>3, <1>4, <1>5, <1>6, <1>7, <1>8, <1>9, <1>10 DEF ConsoleNext, Handler, Starter

\* What the invariants say at a glance.
LEMMA InvGivesNeverStuck ==
  ASSUME InputInv, OutputInv
  PROVE  NeverStuck
<1>0. /\ InputTypes /\ OutputTypes /\ HolderInv /\ FifoInv
  BY Zenon DEF InputInv, OutputInv
<1>1. PICK R \in Nat, W \in Nat, E \in Nat : CountInv(R, W, E)
  BY Zenon DEF InputInv
<1>2. ConsoleTypeOK
  <2>1. Len(fifo) <= FIFO
    <3> DEFINE c == IF starter.c # 0 THEN 1 ELSE 0
               h == IF hpc = "send" THEN 1 ELSE 0
    <3>1. c \in {0, 1} /\ h \in {0, 1}
      BY Zenon
    <3>2. Len(fifo) + c + h <= 2
      BY Zenon, <1>0 DEF FifoInv
    <3>3. Len(fifo) \in Nat
      BY <1>0 DEF OutputTypes
    <3> HIDE DEF c, h
    <3> QED
      BY ONLY <3>1, <3>2, <3>3, ConsoleAssumption
  <2>2. cons.r \in Index /\ cons.w \in Index /\ cons.e \in Index
    BY Zenon, <1>0 DEF InputTypes
  <2>3. starter.by \in Writers \cup {"intr", Nobody}
    BY Zenon, <1>0 DEF OutputTypes
  <2> QED
    BY Zenon, <1>0, <2>1, <2>2, <2>3 DEF ConsoleTypeOK, InputTypes, OutputTypes, HolderInv
<1>3. ReaderSleepsOnlyIfEmpty
  <2>1. \A p \in Readers : rpc[p] = "asleep" => cons.r = cons.w
    BY Zenon, <1>1 DEF CountInv
  <2>2. Minus(cons.e, cons.r) = E - R
    <3>1. R <= E /\ E < R + UINTMOD
      BY Zenon, <1>1, CountsNear
    <3> QED
      BY Zenon, <1>1, <3>1, MinusCount DEF CountInv
  <2>3. E - R = INPUT_BUF_SIZE => E = R + INPUT_BUF_SIZE
    BY Sizes
  <2>4. Minus(cons.e, cons.r) = INPUT_BUF_SIZE => cons.w = cons.e
    BY Zenon, <1>1, <2>2, <2>3 DEF CountInv
  <2> QED
    BY Zenon, <2>1, <2>4 DEF ReaderSleepsOnlyIfEmpty
<1>4. OutputIsDriven
  BY Zenon, <1>0 DEF HolderInv, OutputIsDriven
<1> QED
  BY Zenon, <1>2, <1>3, <1>4 DEF NeverStuck

\* No reader sleeps in front of a complete line or of a full buffer, no
\* writer in front of space, and output that waits has an interrupt to come,
\* for all numbers of processes, buffer sizes and values of the indices.
THEOREM ConsoleNeverStuck == ConsoleSpec => []NeverStuck
<1>1. ConsoleInit => InputInv /\ OutputInv
  BY Zenon, InputInit, OutputInit
<1>2. InputInv /\ OutputInv /\ [ConsoleNext]_cvars => InputInv' /\ OutputInv'
  BY Zenon, InputNext, OutputNext
<1>3. InputInv /\ OutputInv => NeverStuck
  BY Zenon, InvGivesNeverStuck
<1> QED
  BY <1>1, <1>2, <1>3, PTL DEF ConsoleSpec

-----------------------------------------------------------------------------
(* The input ring refines the line discipline.                             *)

\* Sequences are equal if their lengths and elements are.
LEMMA SameSeq ==
  ASSUME NEW S, NEW s \in Seq(S), NEW t \in Seq(S), NEW n, Len(s) = n, Len(t) = n,
         \A i \in 1..n : s[i] = t[i]
  PROVE  s = t
  OBVIOUS

\* Spans are shortened at the end by an erasure, at the front by a read.
LEMMA SpanShorter ==
  ASSUME NEW buf \in [0..(INPUT_BUF_SIZE - 1) -> Chars],
         NEW j \in Nat, NEW k \in Nat, j < k
  PROVE  /\ Span(buf, j, k) # <<>> /\ Len(Span(buf, j, k)) \in Nat \ {0}
         /\ Span(buf, j, k - 1)
              = SubSeq(Span(buf, j, k), 1, Len(Span(buf, j, k)) - 1)
         /\ \A m \in 1..(k - j) :
              Span(buf, j + m, k)
                = SubSeq(Span(buf, j, k), m + 1, Len(Span(buf, j, k)))
<1> DEFINE s == Span(buf, j, k)
<1>0. j <= k
  OBVIOUS
<1>1. /\ s \in Seq(Chars) /\ Len(s) = k - j
      /\ \A i \in 1..(k - j) : s[i] = buf[Cell(j + i - 1)]
  BY Zenon, <1>0, SpanSeq
<1> HIDE DEF s
<1>2. Span(buf, j, k - 1) = SubSeq(s, 1, Len(s) - 1)
  <2>1. /\ SubSeq(s, 1, Len(s) - 1) \in Seq(Chars)
        /\ Len(SubSeq(s, 1, Len(s) - 1)) = k - 1 - j
        /\ \A i \in 1..(k - 1 - j) : SubSeq(s, 1, Len(s) - 1)[i] = s[i]
    BY <1>1
  <2>2. \A i \in 1..(k - 1 - j) : SubSeq(s, 1, Len(s) - 1)[i] = buf[Cell(j + i - 1)]
    BY <1>1, <2>1
  <2> QED
    BY <2>1, <2>2 DEF Span
<1>3. ASSUME NEW m \in 1..(k - j)
      PROVE  Span(buf, j + m, k) = SubSeq(s, m + 1, Len(s))
  <2>1. /\ SubSeq(s, m + 1, Len(s)) \in Seq(Chars)
        /\ Len(SubSeq(s, m + 1, Len(s))) = k - (j + m)
        /\ \A i \in 1..(k - (j + m)) : SubSeq(s, m + 1, Len(s))[i] = s[m + i]
    BY <1>1
  <2>2. \A i \in 1..(k - (j + m)) :
          SubSeq(s, m + 1, Len(s))[i] = buf[Cell(j + m + i - 1)]
    <3> SUFFICES ASSUME NEW i \in 1..(k - (j + m))
                 PROVE  SubSeq(s, m + 1, Len(s))[i] = buf[Cell(j + m + i - 1)]
      BY Zenon
    <3>1. m + i \in 1..(k - j) /\ j + (m + i) - 1 = j + m + i - 1
      OBVIOUS
    <3> QED
      BY Zenon, <1>1, <2>1, <3>1
  <2>3. j + m \in Nat /\ j + m <= k
    OBVIOUS
  <2>4. /\ Span(buf, j + m, k) \in Seq(Chars)
        /\ Len(Span(buf, j + m, k)) = k - (j + m)
        /\ \A i \in 1..(k - (j + m)) :
             Span(buf, j + m, k)[i] = buf[Cell(j + m + i - 1)]
    BY Zenon, <2>3, SpanSeq
  <2>5. \A i \in 1..(k - (j + m)) :
          Span(buf, j + m, k)[i] = SubSeq(s, m + 1, Len(s))[i]
    BY Zenon, <2>2, <2>4
  <2> QED
    BY Zenon, <2>1, <2>4, <2>5, SameSeq
<1>4. s # <<>> /\ Len(s) \in Nat \ {0}
  BY <1>1
<1> QED
  BY Zenon, <1>2, <1>3, <1>4 DEF s

\* A character that is stored behind a span changes none of it: they are in
\* the buffer together.
LEMMA SpanStore ==
  ASSUME NEW buf \in [0..(INPUT_BUF_SIZE - 1) -> Chars], NEW c \in Chars,
         NEW j \in Nat, NEW k \in Nat, NEW l \in Nat, j <= k, k <= l,
         l < j + INPUT_BUF_SIZE
  PROVE  Span([buf EXCEPT ![Cell(l)] = c], j, k) = Span(buf, j, k)
<1>1. ASSUME NEW i \in 1..(k - j)
      PROVE  [buf EXCEPT ![Cell(l)] = c][Cell(j + i - 1)] = buf[Cell(j + i - 1)]
  <2>1. j + i - 1 \in Nat /\ j + i - 1 < l /\ l < (j + i - 1) + INPUT_BUF_SIZE
    BY Sizes
  <2>2. Cell(j + i - 1) # Cell(l)
    BY Zenon, <2>1, CellApart
  <2>3. Cell(j + i - 1) \in 0..(INPUT_BUF_SIZE - 1)
    BY Zenon, <2>1, CellCount
  <2> QED
    BY Zenon, <2>2, <2>3
<1> QED
  BY Zenon, <1>1 DEF Span

\* The new character is the last of the span up to it.
LEMMA SpanAppend ==
  ASSUME NEW buf \in [0..(INPUT_BUF_SIZE - 1) -> Chars], NEW c \in Chars,
         NEW j \in Nat, NEW k \in Nat, j <= k, k < j + INPUT_BUF_SIZE
  PROVE  Span([buf EXCEPT ![Cell(k)] = c], j, k + 1) = Append(Span(buf, j, k), c)
<1>n. PICK n \in Nat : n = k + 1
  OBVIOUS
<1> DEFINE new == [buf EXCEPT ![Cell(k)] = c]
           s   == Span(buf, j, k)
           t   == Span(new, j, n)
<1>0. Cell(k) \in 0..(INPUT_BUF_SIZE - 1)
  BY Zenon, CellCount
<1>1. new \in [0..(INPUT_BUF_SIZE - 1) -> Chars] /\ new[Cell(k)] = c
  BY Zenon, <1>0
<1>2. Span(new, j, k) = s
  <2>1. k <= k
    OBVIOUS
  <2> QED
    BY ONLY ZenonT(60), <2>1, SpanStore, c \in Chars, j \in Nat, k \in Nat, j <= k,
            buf \in [0..(INPUT_BUF_SIZE - 1) -> Chars], k < j + INPUT_BUF_SIZE
<1> HIDE DEF new, s
<1>3. /\ s \in Seq(Chars) /\ Len(s) = k - j
      /\ \A i \in 1..(k - j) : s[i] = new[Cell(j + i - 1)]
  <2>1. /\ Span(new, j, k) \in Seq(Chars) /\ Len(Span(new, j, k)) = k - j
        /\ \A i \in 1..(k - j) : Span(new, j, k)[i] = new[Cell(j + i - 1)]
    BY Zenon, <1>1, SpanSeq
  <2> QED
    BY Zenon, <1>2, <2>1
<1>4. /\ t \in Seq(Chars) /\ Len(t) = n - j
      /\ \A i \in 1..(n - j) : t[i] = new[Cell(j + i - 1)]
  <2>1. j <= n
    BY <1>n
  <2> QED
    BY Zenon, <1>1, <2>1, SpanSeq
<1> HIDE DEF t
<1>5. /\ Append(s, c) \in Seq(Chars) /\ Len(Append(s, c)) = n - j
      /\ \A i \in 1..(k - j) : Append(s, c)[i] = s[i]
      /\ Append(s, c)[n - j] = c
  BY <1>3, <1>n
<1>6. \A i \in 1..(n - j) : t[i] = Append(s, c)[i]
  <2>1. \A i \in 1..(n - j) : i \in 1..(k - j) \/ i = n - j
    BY <1>n
  <2>2. t[n - j] = c
    <3>1. n - j \in 1..(n - j) /\ j + (n - j) - 1 = k
      BY <1>n
    <3> QED
      BY Zenon, <1>1, <1>4, <3>1
  <2>3. \A i \in 1..(k - j) : t[i] = s[i]
    <3>1. \A i \in 1..(k - j) : i \in 1..(n - j)
      BY <1>n
    <3> QED
      BY Zenon, <1>3, <1>4, <3>1
  <2> QED
    BY Zenon, <1>5, <2>1, <2>2, <2>3
<1>7. t = Append(s, c)
  BY Zenon, <1>4, <1>5, <1>6, SameSeq
<1> QED
  BY Zenon, <1>7, <1>n DEF s, t, new

\* Adjacent spans are one.
LEMMA SpanJoin ==
  ASSUME NEW buf \in [0..(INPUT_BUF_SIZE - 1) -> Chars],
         NEW j \in Nat, NEW k \in Nat, NEW l \in Nat, j <= k, k <= l
  PROVE  Span(buf, j, l) = Span(buf, j, k) \o Span(buf, k, l)
<1> DEFINE s == Span(buf, j, k)
           t == Span(buf, k, l)
           u == Span(buf, j, l)
<1>1. /\ s \in Seq(Chars) /\ Len(s) = k - j
      /\ \A i \in 1..(k - j) : s[i] = buf[Cell(j + i - 1)]
  BY Zenon, SpanSeq
<1>2. /\ t \in Seq(Chars) /\ Len(t) = l - k
      /\ \A i \in 1..(l - k) : t[i] = buf[Cell(k + i - 1)]
  BY Zenon, SpanSeq
<1>3. /\ u \in Seq(Chars) /\ Len(u) = l - j
      /\ \A i \in 1..(l - j) : u[i] = buf[Cell(j + i - 1)]
  <2>1. j <= l
    OBVIOUS
  <2> QED
    BY Zenon, <2>1, SpanSeq
<1> HIDE DEF s, t, u
<1>4. /\ s \o t \in Seq(Chars) /\ Len(s \o t) = l - j
      /\ \A i \in 1..(k - j) : (s \o t)[i] = s[i]
      /\ \A i \in 1..(l - j) : i > k - j => (s \o t)[i] = t[i - (k - j)]
  <2>1. s \o t \in Seq(Chars) /\ Len(s \o t) = Len(s) + Len(t)
    <3>1. s \in Seq(Chars) /\ t \in Seq(Chars)
      BY Zenon, <1>1, <1>2
    <3> QED
      BY ONLY <3>1
  <2>2. \A i \in 1..(Len(s) + Len(t)) :
          (s \o t)[i] = IF i <= Len(s) THEN s[i] ELSE t[i - Len(s)]
    BY ONLY <1>1, <1>2
  <2>3. (k - j) + (l - k) = l - j
    OBVIOUS
  <2>4. \A i \in 1..(l - j) : (s \o t)[i] = IF i <= k - j THEN s[i] ELSE t[i - (k - j)]
    BY Zenon, <1>1, <1>2, <2>2, <2>3
  <2>5. \A i \in 1..(k - j) : i \in 1..(l - j) /\ i <= k - j
    OBVIOUS
  <2>6. \A i \in 1..(l - j) : i > k - j => ~(i <= k - j)
    OBVIOUS
  <2> QED
    BY Zenon, <1>1, <1>2, <2>1, <2>3, <2>4, <2>5, <2>6
<1>5. ASSUME NEW i \in 1..(l - j) PROVE u[i] = (s \o t)[i]
  <2>1. CASE i \in 1..(k - j)
    BY Zenon, <1>1, <1>3, <1>4, <2>1
  <2>2. CASE i > k - j
    <3>1. i - (k - j) \in 1..(l - k) /\ k + (i - (k - j)) - 1 = j + i - 1
      BY <2>2
    <3> QED
      BY Zenon, <1>2, <1>3, <1>4, <2>2, <3>1
  <2>3. i \in 1..(k - j) \/ i > k - j
    OBVIOUS
  <2> QED
    BY Zenon, <2>1, <2>2, <2>3
<1>6. u = s \o t
  BY Zenon, <1>3, <1>4, <1>5, SameSeq
<1> QED
  BY Zenon, <1>6 DEF s, t, u

\* An erasure takes the last character of the line, or there is none.
LEMMA EraseRefines ==
  ASSUME InputInv, Erase
  PROVE  Lines!Erase \/ UNCHANGED <<Ring(cons.w, cons.e), Ring(cons.r, cons.w)>>
<1>0. InputTypes
  BY Zenon DEF InputInv
<1>1. PICK R \in Nat, W \in Nat, E \in Nat : CountInv(R, W, E)
  BY Zenon DEF InputInv
<1>2. \/ UNCHANGED cons
      \/ W < E /\ cons' = [cons EXCEPT !.e = (E - 1) % UINTMOD]
               /\ CountInv(R, W, E - 1)'
  BY Zenon, <1>1, EraseCounts
<1>3. CASE UNCHANGED cons
  BY Zenon, <1>3 DEF Ring
<1>4. CASE /\ W < E /\ cons' = [cons EXCEPT !.e = (E - 1) % UINTMOD]
           /\ CountInv(R, W, E - 1)'
  <2>0. E - 1 \in Nat
    BY <1>4
  <2>1. cons'.buf = cons.buf /\ cons.buf \in [0..(INPUT_BUF_SIZE - 1) -> Chars]
    BY Zenon, <1>0, <1>4 DEF InputTypes
  <2>2. /\ Ring(cons.r, cons.w) = Span(cons.buf, R, W)
        /\ Ring(cons.w, cons.e) = Span(cons.buf, W, E)
    BY Zenon, <1>1, RingSpans
  <2>3. /\ Ring(cons.r, cons.w)' = Span(cons.buf, R, W)
        /\ Ring(cons.w, cons.e)' = Span(cons.buf, W, E - 1)
    BY <1>4, <2>0, <2>1, RingSpansNext
  <2>4. /\ Span(cons.buf, W, E) # <<>>
        /\ Span(cons.buf, W, E - 1)
             = SubSeq(Span(cons.buf, W, E), 1, Len(Span(cons.buf, W, E)) - 1)
    BY ZenonT(60), <1>4, <2>1, SpanShorter
  <2> QED
    BY Zenon, <2>2, <2>3, <2>4 DEF Lines!Erase
<1> QED
  BY Zenon, <1>2, <1>3, <1>4

\* A character that is stored is typed: a line that it completes can be read.
LEMMA StoreRefines ==
  ASSUME InputInv, Store
  PROVE  \E c \in Chars : Lines!Type(c)
<1>0. InputTypes
  BY Zenon DEF InputInv
<1>1. PICK R \in Nat, W \in Nat, E \in Nat : CountInv(R, W, E)
  BY Zenon DEF InputInv
<1>2. /\ ch \in Chars /\ E < R + INPUT_BUF_SIZE
      /\ cons'.buf = [cons.buf EXCEPT ![Cell(E)] = ch]
      /\ IF ch \in {NL, EOF} \/ E + 1 = R + INPUT_BUF_SIZE
         THEN CountInv(R, E + 1, E + 1)' ELSE CountInv(R, W, E + 1)'
  BY Zenon, <1>1, StoreCounts
<1>3. R <= W /\ W <= E
  BY Zenon, <1>1, CountsNear
<1>n. PICK N \in Nat : N = E + 1
  OBVIOUS
<1>4. E < W + INPUT_BUF_SIZE /\ W <= N /\ N <= N /\ R <= N
  BY <1>2, <1>3, <1>n, Sizes
<1>s. IF ch \in {NL, EOF} \/ N = R + INPUT_BUF_SIZE
      THEN CountInv(R, N, N)' ELSE CountInv(R, W, N)'
  BY Zenon, <1>2, <1>n
<1> DEFINE buf  == cons.buf
           new  == [buf EXCEPT ![Cell(E)] = ch]
           redy == Span(buf, R, W)
           line == Span(buf, W, E)
<1>5. /\ buf \in [0..(INPUT_BUF_SIZE - 1) -> Chars]
      /\ new \in [0..(INPUT_BUF_SIZE - 1) -> Chars]
  BY Zenon, <1>0, <1>2, CellCount DEF InputTypes
<1>6. Ring(cons.r, cons.w) = redy /\ Ring(cons.w, cons.e) = line
  BY Zenon, <1>1, RingSpans
<1>7. Len(redy) = W - R /\ Len(line) = E - W
  BY Zenon, <1>3, <1>5, SpanSeq
<1>8. Span(new, R, W) = redy
  BY <1>2, <1>3, <1>5, SpanStore
<1>9. Span(new, W, N) = Append(line, ch) /\ Len(Append(line, ch)) = N - W
  <2>1. Span(new, W, N) = Append(line, ch)
    <3>1. /\ ch \in Chars /\ W <= E /\ E < W + INPUT_BUF_SIZE
          /\ buf \in [0..(INPUT_BUF_SIZE - 1) -> Chars]
      BY Zenon, <1>2, <1>3, <1>4, <1>5
    <3> QED
      BY Zenon, <3>1, <1>n, SpanAppend
  <2>2. Len(Span(new, W, N)) = N - W
    BY Zenon, <1>3, <1>4, <1>5, SpanSeq
  <2> QED
    BY Zenon, <2>1, <2>2
<1>10. /\ Len(redy) + Len(line) < INPUT_BUF_SIZE
       /\ Len(redy) + Len(Append(line, ch)) = INPUT_BUF_SIZE
            <=> N = R + INPUT_BUF_SIZE
  BY <1>2, <1>3, <1>n, <1>7, <1>9, Sizes
<1>11. CASE ch \in {NL, EOF} \/ N = R + INPUT_BUF_SIZE
  <2>1. /\ Ring(cons.r, cons.w)' = Span(new, R, N)
        /\ Ring(cons.w, cons.e)' = Span(new, N, N)
    BY Zenon, <1>2, <1>s, <1>11, RingSpansNext
  <2>2. Span(new, R, N) = redy \o Append(line, ch)
    <3> HIDE DEF new, redy, line
    <3>1. Span(new, R, N) = Span(new, R, W) \o Span(new, W, N)
      BY ZenonT(60), <1>3, <1>4, <1>5, SpanJoin
    <3> QED
      BY Zenon, <1>8, <1>9, <3>1
  <2>3. Span(new, N, N) = <<>>
    <3>1. /\ Span(new, N, N) \in Seq(Chars)
          /\ Len(Span(new, N, N)) = (N) - (N)
      BY Zenon, <1>3, <1>4, <1>5, SpanSeq
    <3> QED
      BY ONLY <3>1, N \in Nat
  <2>4. Lines!Type(ch)
    BY Zenon, <1>6, <1>10, <1>11, <2>1, <2>2, <2>3 DEF Lines!Type
  <2> QED
    BY Zenon, <1>2, <2>4
<1>12. CASE ~(ch \in {NL, EOF} \/ N = R + INPUT_BUF_SIZE)
  <2>1. /\ Ring(cons.r, cons.w)' = Span(new, R, W)
        /\ Ring(cons.w, cons.e)' = Span(new, W, N)
    BY Zenon, <1>2, <1>s, <1>12, RingSpansNext
  <2>2. Lines!Type(ch)
    BY Zenon, <1>6, <1>8, <1>9, <1>10, <1>12, <2>1 DEF Lines!Type
  <2> QED
    BY Zenon, <1>2, <2>2
<1> QED
  BY Zenon, <1>11, <1>12

\* A turn of consoleread()'s loop reads part of a line, in order, or leaves
\* the lines as they are.
LEMMA ReadLoopRefines ==
  ASSUME InputInv, NEW p \in Readers, ReadLoop(p)
  PROVE  Lines!Read \/ UNCHANGED <<Ring(cons.w, cons.e), Ring(cons.r, cons.w)>>
<1>0. InputTypes
  BY Zenon DEF InputInv
<1>1. PICK R \in Nat, W \in Nat, E \in Nat : CountInv(R, W, E)
  BY Zenon DEF InputInv
<1>2. \/ UNCHANGED cons
      \/ \E m \in 1..(W - R) :
           /\ cons'.buf = cons.buf /\ CountInv(R + m, W, E)'
           /\ \A i \in 1..(m - 1) : Span(cons.buf, R, W)[i] \notin {NL, EOF}
           /\ Span(cons.buf, R, W)[m] = EOF => m = 1
  BY Zenon, <1>1, ReadLoopCounts
<1>3. CASE UNCHANGED cons
  BY Zenon, <1>3 DEF Ring
<1>4. ASSUME NEW m \in 1..(W - R), cons'.buf = cons.buf, CountInv(R + m, W, E)',
             \A i \in 1..(m - 1) : Span(cons.buf, R, W)[i] \notin {NL, EOF},
             Span(cons.buf, R, W)[m] = EOF => m = 1
      PROVE  Lines!Read
  <2>0. R + m \in Nat /\ R < W /\ R <= W
    OBVIOUS
  <2>1. cons.buf \in [0..(INPUT_BUF_SIZE - 1) -> Chars]
    BY Zenon, <1>0 DEF InputTypes
  <2>2. /\ Ring(cons.r, cons.w) = Span(cons.buf, R, W)
        /\ Ring(cons.w, cons.e) = Span(cons.buf, W, E)
    BY Zenon, <1>1, RingSpans
  <2>3. /\ Ring(cons.r, cons.w)' = Span(cons.buf, R + m, W)
        /\ Ring(cons.w, cons.e)' = Span(cons.buf, W, E)
    BY ZenonT(60), <1>4, <2>0, RingSpansNext
  <2>4. /\ Len(Span(cons.buf, R, W)) = W - R
        /\ Span(cons.buf, R + m, W)
             = SubSeq(Span(cons.buf, R, W), m + 1, Len(Span(cons.buf, R, W)))
    <3>1. Len(Span(cons.buf, R, W)) = W - R
      BY Zenon, <2>0, <2>1, SpanSeq
    <3>2. \A n \in 1..(W - R) :
            Span(cons.buf, R + n, W)
              = SubSeq(Span(cons.buf, R, W), n + 1, Len(Span(cons.buf, R, W)))
      BY Zenon, <2>0, <2>1, SpanShorter
    <3> QED
      BY Zenon, <3>1, <3>2
  <2> QED
    BY Zenon, <1>4, <2>2, <2>3, <2>4 DEF Lines!Read
<1> QED
  BY Zenon, <1>2, <1>3, <1>4

\* A step that leaves the ring alone is no step of the line discipline.
LEMMA SameLines ==
  ASSUME UNCHANGED cons
  PROVE  UNCHANGED <<Ring(cons.w, cons.e), Ring(cons.r, cons.w)>>
  BY Zenon DEF Ring

\* Every step of the console is one of the line discipline, or none.
LEMMA StepRefines ==
  ASSUME InputInv, [ConsoleNext]_cvars
  PROVE  Lines!Next \/ UNCHANGED <<Ring(cons.w, cons.e), Ring(cons.r, cons.w)>>
<1> DEFINE Step ==
      Lines!Next \/ UNCHANGED <<Ring(cons.w, cons.e), Ring(cons.r, cons.w)>>
<1>1. UNCHANGED cons => Step
  BY Zenon, SameLines
<1>2. ASSUME NEW p \in Readers, ReadLoop(p) PROVE Step
  BY Zenon, <1>2, ReadLoopRefines DEF Lines!Next
<1>3. ASSUME NEW p \in Readers, KillReader(p) \/ \E n \in 1..INPUT_BUF_SIZE : Read(p, n)
      PROVE  UNCHANGED cons
  BY Zenon, <1>3 DEF KillReader, Read
<1>4. ASSUME NEW p \in Writers, Write(p) \/ Putc(p) PROVE UNCHANGED cons
  BY Zenon, <1>4 DEF Write, Putc, input
<1>5. ASSUME Starter \/ Transmit PROVE UNCHANGED cons
  BY Zenon, <1>5 DEF Starter, StartTurn, StartWrite, Transmit, input
<1>6. ASSUME NEW c \in Chars \cup {BS, KILL}, Type(c) PROVE UNCHANGED cons
  BY Zenon, <1>6 DEF Type, input
<1>7. ASSUME Store \/ Erase PROVE Step
  BY Zenon, <1>7, StoreRefines, EraseRefines DEF Lines!Next
<1>8. ASSUME Claim \/ GetcNone \/ SyncWait \/ Erased \/ Getc PROVE UNCHANGED cons
  BY Zenon, <1>8 DEF Claim, GetcNone, SyncWait, Erased, Getc, input
<1>9. ASSUME UNCHANGED cvars PROVE UNCHANGED cons
  BY Zenon, <1>9 DEF cvars, input
<1> HIDE DEF Step
<1>10. Step
  BY Zenon, <1>1, <1>2, <1>3, <1>4, <1>5, <1>6, <1>7, <1>8, <1>9 DEF ConsoleNext, Handler
<1> QED
  BY Zenon, <1>10 DEF Step

\* The console keeps the line discipline: a line can be edited until it is
\* complete, complete lines are read in the order they were typed, every
\* character once, for every size of the buffer and width of its indices.
THEOREM ConsoleRefinesLineDiscipline == ConsoleSpec => RefinesLineDiscipline
<1>1. ConsoleInit => InputInv /\ Lines!Init
  <2> SUFFICES ASSUME ConsoleInit PROVE InputInv /\ Lines!Init
    BY Zenon
  <2>1. /\ InputInv /\ FirstIndex \in Nat
        /\ CountInv(FirstIndex, FirstIndex, FirstIndex)
    BY Zenon, InputInit
  <2>2. /\ Ring(cons.w, cons.e) = Span(cons.buf, FirstIndex, FirstIndex)
        /\ Ring(cons.r, cons.w) = Span(cons.buf, FirstIndex, FirstIndex)
    BY Zenon, <2>1, RingSpans
  <2>3. /\ FirstIndex <= FirstIndex
        /\ cons.buf \in [0..(INPUT_BUF_SIZE - 1) -> Chars]
    BY <2>1 DEF InputInv, InputTypes
  <2>4. /\ Span(cons.buf, FirstIndex, FirstIndex) \in Seq(Chars)
        /\ Len(Span(cons.buf, FirstIndex, FirstIndex)) = FirstIndex - FirstIndex
    BY Zenon, <2>1, <2>3, SpanSeq
  <2>5. Span(cons.buf, FirstIndex, FirstIndex) = <<>>
    BY ONLY <2>1, <2>4
  <2> QED
    BY Zenon, <2>1, <2>2, <2>5 DEF Lines!Init
<1>2. InputInv /\ [ConsoleNext]_cvars
        => InputInv' /\ [Lines!Next]_<<Ring(cons.w, cons.e), Ring(cons.r, cons.w)>>
  BY Zenon, InputNext, StepRefines
<1> QED
  BY <1>1, <1>2, PTL DEF ConsoleSpec, RefinesLineDiscipline, Lines!Spec
=============================================================================

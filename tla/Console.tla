------------------------------ MODULE Console ------------------------------
(***************************************************************************)
(* The console (kernel/console.c) and the UART driver under it             *)
(* (kernel/uart.c): processes that read and write the console, the         *)
(* interrupt handler, and the device.                                      *)
(*                                                                         *)
(* cons.lock is held by the interrupt handler while it echoes, so it is    *)
(* "hpc is in Handling"; a read holds it for one step.  uart_tx_lock is    *)
(* held while uartstart() writes the device, so it is "starter is          *)
(* somebody".  uartputc_sync() takes no lock.  Characters written to the   *)
(* console are numbered in the order they enter the transmit buffer; an    *)
(* echoed character is 0.                                                  *)
(***************************************************************************)
EXTENDS Naturals, Sequences

CONSTANTS Readers, Writers,
          Letters, NL, EOF, BS, KILL,   \* what may be typed
          INPUT_BUF_SIZE,
          UINTMOD,          \* number of values of cons.r, w, e (2^32)
          FirstIndex,       \* their value after what was read before
          UART_TX_BUF_SIZE,
          FIFO,             \* characters the device's FIFO holds (16)
          Loads,            \* bounds: [type, read, write], how often each is done
          Nobody

Chars == Letters \cup {NL, EOF}

\* The input buffer divides the range of its indices, and the device's FIFO
\* takes a character of uartstart() and one of uartputc_sync().
ASSUME ConsoleAssumption ==
  /\ INPUT_BUF_SIZE \in Nat \ {0} /\ UINTMOD \in Nat
  /\ UINTMOD % INPUT_BUF_SIZE = 0 /\ UINTMOD > INPUT_BUF_SIZE
  /\ FirstIndex \in 0..(UINTMOD - 1)
  /\ UART_TX_BUF_SIZE \in Nat \ {0} /\ FIFO \in Nat \ {0, 1}
  /\ "intr" \notin Writers /\ Nobody \notin Writers \cup {"intr"}
  /\ BS \notin Chars /\ KILL \notin Chars

Index == 0..(UINTMOD - 1)

VARIABLES cons,      \* cons.buf, r, w, e
          rpc,       \* where each reader is in consoleread()
          want,      \* bytes it still wants
          got,       \* whether it has copied any byte out
          killedR,   \* readers that were killed
          txbuf,     \* uart_tx_buf from uart_tx_r to uart_tx_w
          wpc,       \* where each writer is in uartputc()
          starter,   \* who is in uartstart(), and the character in hand
          hpc, ch,   \* the interrupt handler, and its character
          fifo,      \* device: the transmit FIFO
          rx,        \* device: characters that have arrived
          thri,      \* device: "transmitter empty" interrupt pending
          load,      \* what is still going to be done
          written, sent   \* characters that entered the buffer, and left

input  == <<cons, rpc, want, got, killedR>>
output == <<txbuf, wpc, starter, written>>
devtx  == <<fifo, thri, sent>>
cvars  == <<input, output, hpc, ch, devtx, rx, load>>

IncUnbounded(i) == i + 1
Inc(i) == (i + 1) % UINTMOD
Dec(i) == (i + UINTMOD - 1) % UINTMOD
Minus(i, j) == (i + UINTMOD - j) % UINTMOD
Cell(i) == i % INPUT_BUF_SIZE

\* The characters in buf from index i up to index j.
Ring(i, j) == [k \in 1..Minus(j, i) |->
                 cons.buf[Cell((i + k - 1) % UINTMOD)]]

\* consoleinit(), uartinit(), and what was read since.
ConsoleInit ==
  /\ cons = [buf |-> [k \in 0..(INPUT_BUF_SIZE - 1) |-> NL],
             r |-> FirstIndex, w |-> FirstIndex, e |-> FirstIndex]
  /\ rpc = [p \in Readers |-> "idle"] /\ want = [p \in Readers |-> 0]
  /\ got = [p \in Readers |-> FALSE] /\ killedR = {}
  /\ txbuf = <<>> /\ wpc = [p \in Writers |-> "idle"] /\ written = 0
  /\ starter = [by |-> Nobody, c |-> 0]
  /\ hpc = "idle" /\ ch = NL
  /\ fifo = <<>> /\ rx = <<>> /\ thri = FALSE /\ sent = 0
  /\ load \in Loads

Handling == {"echo", "send", "erase"}
ConsFree == hpc \notin Handling
TxFree   == starter.by = Nobody

-----------------------------------------------------------------------------
(* consoleread()                                                           *)

Read(p, n) ==
  /\ rpc[p] = "idle" /\ p \notin killedR
  /\ load.read > 0 /\ load' = [load EXCEPT !.read = @ - 1]
  /\ rpc' = [rpc EXCEPT ![p] = "loop"]
  /\ want' = [want EXCEPT ![p] = n] /\ got' = [got EXCEPT ![p] = FALSE]
  /\ UNCHANGED <<cons, killedR, output, hpc, ch, devtx, rx>>

\* How many characters a read that wants n takes from line, which is not
\* empty: up to a newline, or up to an end-of-file, which is pushed back
\* unless it is all there is to return.
Stops(line) == {i \in DOMAIN line : line[i] \in {NL, EOF}}
PushBackNever(line, i, any) == i
PushBack(line, i, any) ==
  IF line[i] = EOF /\ (i > 1 \/ any) THEN i - 1 ELSE i
Upto(line, n) == LET S == Stops(line) IN
  IF \E i \in S : i <= n
  THEN CHOOSE i \in S : \A j \in S : i <= j
  ELSE IF n < Len(line) THEN n ELSE Len(line)

\* Under cons.lock until the read is complete or must sleep.
ReadLoop(p) ==
  LET line == Ring(cons.r, cons.w)
      n    == Upto(line, want[p])
      m    == PushBack(line, n, got[p])
      done == n \in Stops(line) \/ n = want[p] IN
  /\ rpc[p] = "loop" /\ ConsFree
  /\ IF line = <<>>
     THEN /\ rpc' = [rpc EXCEPT ![p] = IF p \in killedR THEN "idle"
                                       ELSE "asleep"]
          /\ UNCHANGED <<cons, want, got>>
     ELSE /\ cons' = [cons EXCEPT !.r = (@ + m) % UINTMOD]
          /\ rpc' = [rpc EXCEPT ![p] = IF done THEN "idle" ELSE "loop"]
          /\ want' = [want EXCEPT ![p] = IF done THEN 0 ELSE @ - n]
          /\ got' = [got EXCEPT ![p] = ~done]
  /\ UNCHANGED <<killedR, output, hpc, ch, devtx, rx, load>>

\* kill() wakes a sleeping reader.
KillReader(p) ==
  /\ p \notin killedR /\ rpc[p] # "idle"
  /\ killedR' = killedR \cup {p}
  /\ rpc' = [rpc EXCEPT ![p] = IF @ = "asleep" THEN "loop" ELSE @]
  /\ UNCHANGED <<cons, want, got, output, hpc, ch, devtx, rx, load>>

-----------------------------------------------------------------------------
(* uartputc() and uartstart()                                              *)

\* consolewrite() calls uartputc() for each character.
Write(p) ==
  /\ wpc[p] = "idle"
  /\ load.write > 0 /\ load' = [load EXCEPT !.write = @ - 1]
  /\ wpc' = [wpc EXCEPT ![p] = "put"]
  /\ UNCHANGED <<input, txbuf, starter, written, hpc, ch, devtx, rx>>

\* Sleep while the buffer is full, else append and uartstart().
Putc(p) ==
  /\ wpc[p] = "put" /\ TxFree
  /\ IF Len(txbuf) = UART_TX_BUF_SIZE
     THEN /\ wpc' = [wpc EXCEPT ![p] = "asleep"]
          /\ UNCHANGED <<txbuf, starter, written>>
     ELSE /\ written' = written + 1
          /\ txbuf' = Append(txbuf, written')
          /\ starter' = [by |-> p, c |-> 0]
          /\ wpc' = [wpc EXCEPT ![p] = "start"]
  /\ UNCHANGED <<input, hpc, ch, devtx, rx, load>>

\* LSR_TX_IDLE: the FIFO is empty.
TxAlways == TRUE
TxIdle == fifo = <<>>

\* One turn of uartstart()'s loop: take a character and wake the writers,
\* or return.  Finding the buffer empty reads ISR, which clears the
\* interrupt.
WakeNobody == wpc
WakeWriters == [p \in Writers |-> IF wpc[p] = "asleep" THEN "put" ELSE wpc[p]]

StartTurn ==
  /\ starter.by # Nobody /\ starter.c = 0
  /\ IF txbuf = <<>> \/ ~TxIdle
     THEN /\ starter' = [by |-> Nobody, c |-> 0]
          /\ wpc' = IF starter.by = "intr" THEN wpc
                    ELSE [wpc EXCEPT ![starter.by] = "idle"]
          /\ hpc' = IF starter.by = "intr" THEN "idle" ELSE hpc
          /\ thri' = (thri /\ txbuf # <<>>)
          /\ UNCHANGED txbuf
     ELSE /\ starter' = [starter EXCEPT !.c = Head(txbuf)]
          /\ txbuf' = Tail(txbuf)
          /\ wpc' = WakeWriters
          /\ UNCHANGED <<hpc, thri>>
  /\ UNCHANGED <<input, written, ch, fifo, sent, rx, load>>

\* WriteReg(THR, c): a full FIFO loses the character.
WriteTHR(c) ==
  /\ fifo' = IF Len(fifo) < FIFO THEN Append(fifo, c) ELSE fifo
  /\ thri' = FALSE

StartWrite ==
  /\ starter.by # Nobody /\ starter.c # 0
  /\ WriteTHR(starter.c)
  /\ starter' = [starter EXCEPT !.c = 0]
  /\ UNCHANGED <<input, txbuf, wpc, written, sent, hpc, ch, rx, load>>

-----------------------------------------------------------------------------
(* uartintr() and consoleintr()                                            *)

\* devintr() has claimed the interrupt from the PLIC.
Claim ==
  /\ hpc = "idle" /\ (rx # <<>> \/ thri)
  /\ hpc' = "getc"
  /\ UNCHANGED <<input, output, ch, devtx, rx, load>>

\* uartgetc(); consoleintr() on a character, else uartstart().
Getc ==
  /\ hpc = "getc" /\ rx # <<>>
  /\ ch' = Head(rx) /\ rx' = Tail(rx)
  /\ hpc' = IF Head(rx) \in {BS, KILL}
            THEN IF cons.e = cons.w THEN "getc" ELSE "erase"
            ELSE IF Minus(cons.e, cons.r) < INPUT_BUF_SIZE THEN "echo"
            ELSE "getc"
  /\ UNCHANGED <<input, output, devtx, load>>

GetcNone ==
  /\ hpc = "getc" /\ rx = <<>> /\ TxFree
  /\ hpc' = "start"
  /\ starter' = [by |-> "intr", c |-> 0]
  /\ UNCHANGED <<input, txbuf, wpc, written, ch, devtx, rx, load>>

\* Backspace erases a character, ^U all back to a newline or to w.
KillGoesOn(e) == e # cons.w /\ cons.buf[Cell(Dec(e))] # NL

Erase ==
  /\ hpc = "erase"
  /\ IF cons.e # cons.w /\ (ch = KILL => KillGoesOn(cons.e))
     THEN cons' = [cons EXCEPT !.e = Dec(@)] /\ hpc' = "echo"
     ELSE hpc' = "getc" /\ UNCHANGED cons
  /\ UNCHANGED <<rpc, want, got, killedR, output, ch, devtx, rx, load>>

\* uartputc_sync() spins until the device is idle, then writes: two steps,
\* for uartstart() may write in between.
SyncWait ==
  /\ hpc = "echo" /\ TxIdle
  /\ hpc' = "send"
  /\ UNCHANGED <<input, output, ch, devtx, rx, load>>

\* The echo of an erased character.
Erased ==
  /\ hpc = "send" /\ ch \in {BS, KILL}
  /\ WriteTHR(0)
  /\ hpc' = IF ch = KILL THEN "erase" ELSE "getc"
  /\ UNCHANGED <<input, output, sent, ch, rx, load>>

\* The echo, then the character goes into the buffer; a complete line, or a
\* full buffer, wakes the readers.
LineEnds(c, e) == c \in {NL, EOF}
LineCompleteAt(c, e) ==
  c \in {NL, EOF} \/ Minus(e, cons.r) = INPUT_BUF_SIZE

WakeReaders == [p \in Readers |-> IF rpc[p] = "asleep" THEN "loop" ELSE rpc[p]]

Store ==
  LET e == Inc(cons.e) IN
  /\ hpc = "send" /\ ch \in Chars
  /\ WriteTHR(0)
  /\ cons' = [cons EXCEPT !.buf[Cell(cons.e)] = ch, !.e = e,
                          !.w = IF LineCompleteAt(ch, e) THEN e ELSE @]
  /\ rpc' = IF LineCompleteAt(ch, e) THEN WakeReaders ELSE rpc
  /\ hpc' = "getc"
  /\ UNCHANGED <<want, got, killedR, output, sent, ch, rx, load>>

-----------------------------------------------------------------------------
(* The device, and somebody at the keyboard.                               *)

Transmit ==
  /\ fifo # <<>>
  /\ fifo' = Tail(fifo)
  /\ sent' = IF Head(fifo) = 0 THEN sent ELSE sent + 1
  /\ thri' = (thri \/ fifo' = <<>>)
  /\ UNCHANGED <<input, output, hpc, ch, rx, load>>

Type(c) ==
  /\ rx = <<>>
  /\ load.type > 0 /\ load' = [load EXCEPT !.type = @ - 1]
  /\ rx' = <<c>>
  /\ UNCHANGED <<input, output, hpc, ch, devtx>>

-----------------------------------------------------------------------------
Handler == \/ Claim \/ Getc \/ GetcNone \/ Erase \/ SyncWait \/ Erased
           \/ Store
Starter == StartTurn \/ StartWrite

ConsoleNext ==
  \/ \E p \in Readers : \/ \E n \in 1..INPUT_BUF_SIZE : Read(p, n)
                        \/ ReadLoop(p) \/ KillReader(p)
  \/ \E p \in Writers : Write(p) \/ Putc(p)
  \/ Starter \/ Handler \/ Transmit
  \/ \E c \in Chars \cup {BS, KILL} : Type(c)

ConsoleSpec == ConsoleInit /\ [][ConsoleNext]_cvars

\* Processes are scheduled, the interrupt is taken, the device transmits.
\* Nothing makes anybody type, read or write; as they do so only so often,
\* weak fairness of all that together is enough.
ConsoleFairness ==
  WF_cvars(Starter \/ Handler \/ Transmit \/ \E p \in Writers : Putc(p))

-----------------------------------------------------------------------------
(* Properties.                                                             *)

\* Every variable keeps its type; the indices are uints that wrap.
ConsoleTypeOK ==
  /\ cons.r \in Index /\ cons.w \in Index /\ cons.e \in Index
  /\ rpc \in [Readers -> {"idle", "loop", "asleep"}]
  /\ wpc \in [Writers -> {"idle", "put", "asleep", "start"}]
  /\ hpc \in {"idle", "getc", "start"} \cup Handling
  /\ Len(fifo) <= FIFO /\ Len(txbuf) <= UART_TX_BUF_SIZE
  /\ starter.by \in Writers \cup {"intr", Nobody}
  /\ ch \in Chars \cup {BS, KILL}

\* No reader sleeps while there is something to read, and a full buffer is
\* ready to be read: nothing that is typed can leave the console stuck.
ReaderSleepsOnlyIfEmpty ==
  /\ ConsFree => \A p \in Readers : rpc[p] = "asleep" => cons.r = cons.w
  /\ Minus(cons.e, cons.r) = INPUT_BUF_SIZE => cons.w = cons.e

\* Characters written to the console are sent once each, in the order they
\* entered the buffer, whatever is echoed between them.
OutputInOrder ==
  LET out == fifo \o <<starter.c>> \o txbuf IN
  /\ {out[i] : i \in DOMAIN out} \ {0} = (sent + 1)..written
  /\ \A i, j \in DOMAIN out :
       i < j /\ out[i] # 0 /\ out[j] # 0 => out[i] < out[j]

\* A writer sleeps only while the buffer is full, and while anything is in
\* the buffer the device is working or an interrupt is on its way.
OutputIsDriven ==
  TxFree => /\ \A p \in Writers : wpc[p] = "asleep" =>
                 Len(txbuf) = UART_TX_BUF_SIZE
            /\ txbuf # <<>> => fifo # <<>> \/ thri \/ hpc # "idle"

\* The ring refines the line discipline.
Lines == INSTANCE LineDiscipline WITH
  Size  <- INPUT_BUF_SIZE,
  edit  <- Ring(cons.w, cons.e),
  ready <- Ring(cons.r, cons.w)

\* Editing, complete lines and reads are those of LineDiscipline: no
\* character is lost, doubled or reordered between the keyboard and a read,
\* also where the indices wrap.
RefinesLineDiscipline == Lines!Spec

\* Every write to the console returns, as long as the device transmits.
WritesReturn == []<>(\A p \in Writers : wpc[p] = "idle")

\* Neither side of the console gets stuck: no reader sleeps in front of a
\* line, no writer in front of space, no output stays in the buffer without
\* an interrupt to come; variables keep their types, the device's FIFO its
\* size, which the echo, taking no lock, could overrun.
NeverStuck == ConsoleTypeOK /\ ReaderSleepsOnlyIfEmpty /\ OutputIsDriven
=============================================================================

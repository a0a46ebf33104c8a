------------------------------ MODULE Console ------------------------------
(***************************************************************************)
(* The console and the serial port (kernel/console.c, uart.c): processes   *)
(* that read and write, the interrupt handler, which edits the input line  *)
(* and feeds the transmitter, and the device.  A step is what happens      *)
(* under cons.lock or uart_tx_lock up to a sleep or a release.             *)
(***************************************************************************)
EXTENDS Integers, Sequences, FiniteSets, FiniteSetsExt

CONSTANTS
  Readers, Writers,
  INPUT_BUF_SIZE, UART_TX_BUF_SIZE,
  Wrap,       \* 2^32: the indices of the input are unsigned int
  ReadLens    \* the lengths of reads

VARIABLES
  cons,       \* buf and the indices r, w and e
  tx,         \* uart_tx_buf with uart_tx_r and uart_tx_w; these have 64 bits
              \* and do not wrap: both are counted from a multiple of the size
  uart,       \* busy: the transmitter; irq: an interrupt is pending; intr:
              \* the handler runs
  user        \* of each process: where it is, n left to read, whether some
              \* was read (n < target), and whether it was killed

vars == <<cons, tx, uart, user>>

Chars == {"x", "nl", "^D"}
Keys == Chars \cup {"^H", "^U"}
Procs == Readers \cup Writers

\* A process that is not in a call; one that was killed exits then, and
\* another takes its place.
Idle == [pc |-> "idle", n |-> 0, some |-> FALSE, killed |-> FALSE]

Init ==
  /\ cons = [buf |-> [i \in 0..(INPUT_BUF_SIZE - 1) |-> "x"], r |-> 0, w |-> 0, e |-> 0]
  /\ tx = [buf |-> [i \in 0..(UART_TX_BUF_SIZE - 1) |-> 0], r |-> 0, w |-> 0]
  /\ uart = [busy |-> FALSE, irq |-> FALSE, intr |-> FALSE]
  /\ user = [p \in Procs |-> Idle]

Dist(from, to) == (to - from) % Wrap
InRange(from, to) == [j \in 1..Dist(from, to) |-> cons.buf[(from + j - 1) % INPUT_BUF_SIZE]]
Finished == InRange(cons.r, cons.w)

\* c with the entries nobody reads any more blanked, so that states that differ
\* in nothing else are one.
Blanked(c) == [c EXCEPT !.buf = [i \in DOMAIN c.buf |->
  IF \E d \in 1..Dist(c.r, c.e) : i = (c.r + d - 1) % INPUT_BUF_SIZE THEN c.buf[i] ELSE "x"]]

\* wakeup on the channel where processes sleep at l.
Woken(l, m) == [p \in Procs |-> IF user[p].pc = l THEN [user[p] EXCEPT !.pc = m] ELSE user[p]]

(***************************************************************************)
(* consoleread.                                                            *)
(***************************************************************************)
read(p, n) ==
  /\ user[p].pc = "idle"
  /\ user' = [user EXCEPT ![p].pc = "read", ![p].n = n]
  /\ UNCHANGED <<cons, tx, uart>>

\* Mutation of ReadTo: the end of file is used up by a read that returns data.
ReadTo_eof(p) ==
  LET n == user[p].n
      s == SubSeq(Finished, 1, Min({n, Len(Finished)}))
      stops == {j \in 1..Len(s) : s[j] # "x"} IN
  IF stops = {} THEN <<Len(s), Len(s) = n>> ELSE <<Min(stops), TRUE>>

\* How many characters a turn takes, and whether the call returns then: up to
\* a newline, to the end of file, which is left if something was read before
\* it, or to n.
ReadTo(p) ==
  LET n == user[p].n
      s == SubSeq(Finished, 1, Min({n, Len(Finished)}))
      stops == {j \in 1..Len(s) : s[j] # "x"}
      j == Min(stops) IN
  IF stops = {} THEN <<Len(s), Len(s) = n>>
  ELSE IF s[j] = "^D" /\ (j > 1 \/ user[p].some) THEN <<j - 1, TRUE>>
  ELSE <<j, TRUE>>

\* The loop of consoleread from acquire to release or sleep.  A copyout that
\* fails ends it with the character it was to copy.
consoleread(p) ==
  /\ user[p].pc \in {"read", "rwoken"}
  /\ IF cons.r = cons.w
       THEN /\ user' = [user EXCEPT ![p] = IF @.killed THEN Idle ELSE [@ EXCEPT !.pc = "rsleep"]]
            /\ UNCHANGED cons
       ELSE \/ LET k == ReadTo(p)[1]
                   done == ReadTo(p)[2] IN
                 /\ cons' = Blanked([cons EXCEPT !.r = (@ + k) % Wrap])
                 /\ user' = [user EXCEPT ![p] = IF done \/ @.killed THEN Idle
                                                ELSE [@ EXCEPT !.n = @ - k, !.some = TRUE, !.pc = "rsleep"]]
            \/ \E j \in 1..ReadTo(p)[1] :
                 /\ Finished[j] # "^D"
                 /\ cons' = Blanked([cons EXCEPT !.r = (@ + j) % Wrap])
                 /\ user' = [user EXCEPT ![p] = Idle]
  /\ UNCHANGED <<tx, uart>>

(***************************************************************************)
(* consoleintr, called by uartintr for a character c that was typed.  The  *)
(* echo waits for the transmitter and occupies it.                         *)
(***************************************************************************)
\* Where e is after kill-line.
Killed == CHOOSE i \in {(cons.w + d) % Wrap : d \in 0..Dist(cons.w, cons.e)} :
            /\ i = cons.w \/ cons.buf[(i - 1) % INPUT_BUF_SIZE] = "nl"
            /\ \A d \in 1..Dist(i, cons.e) : cons.buf[(i + d - 1) % INPUT_BUF_SIZE] # "nl"

\* Mutation of Ready: a full buffer is not given to the readers.
Ready_line(c, e) == c \in {"nl", "^D"}

\* Whether readers are told, after c was stored and e advanced.
Ready(c, e) == c \in {"nl", "^D"} \/ Dist(cons.r, e) = INPUT_BUF_SIZE

\* Mutation of Store: e is advanced before the character is stored.
Store_next(c) ==
  LET e == (cons.e + 1) % Wrap IN
  /\ cons' = [cons EXCEPT !.buf[e % INPUT_BUF_SIZE] = c, !.e = e,
                          !.w = IF Ready(c, e) THEN e ELSE @]
  /\ user' = IF Ready(c, e) THEN Woken("rsleep", "rwoken") ELSE user

\* Mutation of Store: wakeup is called only for a newline.
Store_newline(c) ==
  LET e == (cons.e + 1) % Wrap IN
  /\ cons' = [cons EXCEPT !.buf[cons.e % INPUT_BUF_SIZE] = c, !.e = e,
                          !.w = IF Ready(c, e) THEN e ELSE @]
  /\ user' = IF c = "nl" THEN Woken("rsleep", "rwoken") ELSE user

Store(c) ==
  LET e == (cons.e + 1) % Wrap IN
  /\ cons' = [cons EXCEPT !.buf[cons.e % INPUT_BUF_SIZE] = c, !.e = e,
                          !.w = IF Ready(c, e) THEN e ELSE @]
  /\ user' = IF Ready(c, e) THEN Woken("rsleep", "rwoken") ELSE user

\* Where e is after backspace.
Erase == IF cons.e # cons.w THEN (cons.e - 1) % Wrap ELSE cons.e

consoleintr(c) ==
  LET echo == cons'.e # cons.e IN
  /\ uart.intr
  /\ CASE c = "^U" -> cons' = Blanked([cons EXCEPT !.e = Killed]) /\ UNCHANGED user
       [] c = "^H" -> cons' = Blanked([cons EXCEPT !.e = Erase]) /\ UNCHANGED user
       [] OTHER -> IF Dist(cons.r, cons.e) < INPUT_BUF_SIZE THEN Store(c) ELSE UNCHANGED <<cons, user>>
  /\ echo => ~uart.busy
  /\ uart' = [uart EXCEPT !.busy = @ \/ echo]
  /\ UNCHANGED tx

(***************************************************************************)
(* consolewrite, a character at a time, and the transmitter.               *)
(***************************************************************************)
Waiting(t) == t.w - t.r

\* How many characters uartstart sends: as many as the transmitter takes, which
\* may become idle again while it runs.
Sends(t) == IF uart.busy \/ t.r = t.w THEN {0} ELSE 1..Waiting(t)

\* t without the first k characters, their places blanked.
Emptied(t, k) ==
  LET base == IF t.r + k >= UART_TX_BUF_SIZE THEN UART_TX_BUF_SIZE ELSE 0 IN
  [r |-> t.r + k - base, w |-> t.w - base,
   buf |-> [i \in DOMAIN t.buf |-> IF \E d \in 0..(k - 1) : i = (t.r + d) % UART_TX_BUF_SIZE THEN 0 ELSE t.buf[i]]]

\* uartstart, in the buffer t and with the processes as in us.
uartstart(t, us, intr) ==
  \E k \in Sends(t) :
    /\ tx' = Emptied(t, k)
    /\ uart' = [uart EXCEPT !.busy = @ \/ k > 0, !.intr = intr]
    /\ user' = [p \in Procs |-> IF us[p].pc = "wsleep" /\ k > 0 THEN [us[p] EXCEPT !.pc = "wwoken"] ELSE us[p]]

\* Mutation of Full: one character more fits.
Full_over == Waiting(tx) = UART_TX_BUF_SIZE + 1

Full == Waiting(tx) = UART_TX_BUF_SIZE

uartputc(p, c) ==
  /\ user[p].pc \in {"idle", "wwoken"}
  /\ IF Full THEN user' = [user EXCEPT ![p].pc = "wsleep"] /\ UNCHANGED <<tx, uart>>
     ELSE uartstart([tx EXCEPT !.buf[tx.w % UART_TX_BUF_SIZE] = c, !.w = @ + 1],
                    [user EXCEPT ![p] = Idle], uart.intr)
  /\ UNCHANGED cons

\* devintr: the PLIC gives the interrupt of the UART to one CPU.
devintr ==
  /\ uart.irq /\ ~uart.intr
  /\ uart' = [uart EXCEPT !.irq = FALSE, !.intr = TRUE]
  /\ UNCHANGED <<cons, tx, user>>

\* Mutation of uartintr: it only reads input.
uartintr_input ==
  /\ uart.intr
  /\ uart' = [uart EXCEPT !.intr = FALSE]
  /\ UNCHANGED <<cons, tx, user>>

\* No input is left: uartstart, and the interrupt is complete.
uartintr ==
  /\ uart.intr
  /\ uartstart(tx, user, FALSE)
  /\ UNCHANGED cons

\* Only a reader looks at killed.
kill(p) ==
  /\ user[p].pc # "idle" /\ ~user[p].killed
  /\ user' = [user EXCEPT ![p].killed = p \in Readers,
                          ![p].pc = CASE @ = "rsleep" -> "rwoken" [] @ = "wsleep" -> "wwoken" [] OTHER -> @]
  /\ UNCHANGED <<cons, tx, uart>>

(***************************************************************************)
(* The device: a key is pressed, or the transmitter becomes idle.          *)
(***************************************************************************)
key == ~uart.irq /\ uart' = [uart EXCEPT !.irq = TRUE] /\ UNCHANGED <<cons, tx, user>>
sent == uart.busy /\ uart' = [uart EXCEPT !.busy = FALSE, !.irq = TRUE] /\ UNCHANGED <<cons, tx, user>>

Next ==
  \/ \E p \in Readers : consoleread(p) \/ \E n \in ReadLens : read(p, n)
  \/ \E p \in Writers : \E c \in {0, 1} : uartputc(p, c)
  \/ \E p \in Procs : kill(p)
  \/ devintr \/ (\E c \in Keys : consoleintr(c)) \/ uartintr
  \/ key \/ sent

(***************************************************************************)
(* Properties.                                                             *)
(***************************************************************************)
Editor == INSTANCE LineEditor
            WITH finished <- Finished, line <- InRange(cons.w, cons.e), Ends <- {"nl", "^D"}, Size <- INPUT_BUF_SIZE

\* The ring with its three indices is an editor of lines: whatever is typed
\* while readers take characters, at the wrap of the ring and of the indices,
\* erasing never reaches a finished line and nothing is overwritten.
ConsoleIsEditor == [Editor!Next]_(Editor!vars)

\* The comment in consoleread: the caller that finds the end of file gets a
\* result of 0 bytes; a read that has data leaves it for the next.
EofIsARead ==
  \A p \in Readers :
    user'[p] # user[p] /\ cons'.r # cons.r /\ cons.buf[(cons'.r - 1) % INPUT_BUF_SIZE] = "^D"
    => ~user[p].some /\ Dist(cons.r, cons'.r) = 1

\* A full input buffer is the readers' to empty: it is never full of a line
\* that is still edited, which nobody could finish (consoleintr drops keys).
FullIsFinished ==
  /\ Dist(cons.r, cons.w) <= Dist(cons.r, cons.e) /\ Dist(cons.r, cons.e) <= INPUT_BUF_SIZE
  /\ Dist(cons.r, cons.e) = INPUT_BUF_SIZE => cons.w = cons.e

\* Nobody sleeps for what is there: readers sleep only while no finished line
\* is left, writers only while the transmit buffer is full.
ConsoleSleepers ==
  \A p \in Procs : /\ user[p].pc = "rsleep" => cons.r = cons.w
                   /\ user[p].pc = "wsleep" => Full

\* Output does not get stuck: while characters wait, the transmitter is busy,
\* or an interrupt that will send them is pending or being handled.
OutputMoves == tx.r # tx.w => uart.busy \/ uart.irq \/ uart.intr

TxContents == [j \in 1..Waiting(tx) |-> tx.buf[(tx.r + j - 1) % UART_TX_BUF_SIZE]]

\* Characters leave the transmit buffer in the order in which they were put
\* there, and none is overwritten.
OutputInOrder ==
  \E s \in {<<>>, <<0>>, <<1>>} :
    LET all == TxContents \o s IN
    \E k \in 0..Len(all) : TxContents' = SubSeq(all, k + 1, Len(all))
====

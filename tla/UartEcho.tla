------------------------------ MODULE UartEcho ------------------------------
(***************************************************************************)
(* The bring-up top, clock by clock: uart_rx and uart_tx with the echo of  *)
(* hardfuzz_top between them, and a host with a clock of its own at the    *)
(* two wires.                                                              *)
(*                                                                         *)
(* A step is one rising edge of sysclk: every register takes its next      *)
(* value from the old ones.  The host's bits last line.rate / SUB clocks   *)
(* and begin anywhere between two edges.                                   *)
(***************************************************************************)
EXTENDS Naturals, Sequences

CONSTANTS
  CLKS_PER_BIT,
  SUB,         \* parts a clock is divided into, to say how long the host's bits last
  Lines,       \* the hosts and their surroundings, see UartOK
  Bytes        \* what the host sends

Bit == {0, 1}

ASSUME UartOK ==
  /\ CLKS_PER_BIT \in Nat \ {0} /\ SUB \in Nat \ {0}
  /\ Bytes \subseteq [0 .. 7 -> Bit]
  /\ Lines \subseteq
       [rate   : Nat \ {0},             \* parts of a clock a bit lasts
        phases : SUBSET (0 .. SUB - 1), \* parts of the clock that can have passed when a frame begins
        gap    : Nat,                   \* clocks from a stop bit to the next start bit, at least
        glitch : Nat,                   \* clocks of the longest low pulse on the idle line
        resets : Nat]                   \* bound: clocks with btn[0] pressed

VARIABLES
  rx_d0, rx_sync,    \* the synchronizer
  u_rx, u_tx,        \* registers of uart_rx and uart_tx
  tx_start, tx_data, \* hardfuzz_top
  host, term,        \* the host's sender and receiver
  line,
  resets,
  (* history *)
  calm,              \* no reset since everything was last at rest
  owed,              \* bytes the host has begun to send and uart_rx has not delivered
  due                \* bytes to be echoed that the host has not received

echoVars == <<rx_d0, rx_sync, u_rx, u_tx, tx_start, tx_data, host, term, line, resets, calm, owed, due>>

HALF == (CLKS_PER_BIT - 1) \div 2
LAST == CLKS_PER_BIT - 1

Blank == [k \in 0 .. 7 |-> 0]

\* The two clocks agree well enough for a frame: seen through the synchronizer, the middle
\* of every bit by the receiver's count lies in the bit, on either side, and a low pulse on
\* the idle line is gone by the middle of a start bit.
ASSUME TimingOK ==
  \A ln \in Lines :
    /\ \A j \in 0 .. 9 : /\ j * ln.rate <= (HALF + 1 + j * CLKS_PER_BIT) * SUB
                         /\ (HALF + 3 + j * CLKS_PER_BIT) * SUB <= (j + 1) * ln.rate
    /\ \A j \in 0 .. 9 : /\ 2 * j * CLKS_PER_BIT * SUB <= (2 * j + 1) * ln.rate
                         /\ (2 * j + 1) * ln.rate <= 2 * ((j + 1) * CLKS_PER_BIT - 2) * SUB
    /\ ln.glitch <= HALF + 1

\* uart_tx's outputs have no value before the first clock.
EchoInit ==
  /\ rx_d0 = 1 /\ rx_sync = 1
  /\ u_rx = [state |-> "IDLE", clk_cnt |-> 0, bit_idx |-> 0, valid |-> FALSE, data |-> Blank]
  /\ \E b \in Bit :
       u_tx = [state |-> "IDLE", clk_cnt |-> 0, bit_idx |-> 0, shreg |-> Blank, tx |-> b, busy |-> FALSE]
  /\ tx_start = FALSE /\ tx_data = Blank
  /\ host = [pc |-> "idle", k |-> 0, t |-> 0, byte |-> Blank, wait |-> 0]
  /\ term = [k |-> 0, t |-> 0, bits |-> Blank]
  /\ line \in Lines /\ resets = 0
  /\ calm = TRUE /\ owed = <<>> /\ due = <<>>

-----------------------------------------------------------------------------
(* The host's sender: a start bit, eight data bits, a stop bit.  A short    *)
(* low pulse is followed by a bit's length of silence.                      *)

uart_txd_in == CASE host.pc = "idle"   -> 1
                 [] host.pc = "glitch" -> 0
                 [] OTHER -> IF host.k = 0 THEN 0 ELSE IF host.k = 9 THEN 1 ELSE host.byte[host.k - 1]

Begins(t) == \E b \in Bytes :
               host' = [pc |-> "send", k |-> 0, t |-> t, byte |-> b, wait |-> 0]

HostIdles == /\ host.pc = "idle"
             /\ host' = [host EXCEPT !.wait = IF @ = 0 THEN 0 ELSE @ - 1]

HostBegins == /\ host.pc = "idle" /\ host.wait = 0
              /\ \E t \in line.phases : Begins(t)

HostSends == /\ host.pc = "send" /\ host.t + SUB < line.rate
             /\ host' = [host EXCEPT !.t = @ + SUB]

HostNextBit == /\ host.pc = "send" /\ host.t + SUB >= line.rate /\ host.k < 9
               /\ host' = [host EXCEPT !.k = @ + 1, !.t = @ + SUB - line.rate]

HostEnds == /\ host.pc = "send" /\ host.t + SUB >= line.rate /\ host.k = 9
            /\ \/ host' = [pc |-> "idle", k |-> 0, t |-> 0, byte |-> Blank, wait |-> line.gap]
               \/ line.gap = 0 /\ Begins(host.t + SUB - line.rate)

HostGlitch == /\ host.pc = "idle" /\ host.wait = 0 /\ line.glitch > 0
              /\ host' = [host EXCEPT !.pc = "glitch", !.k = line.glitch]

HostGlitches == /\ host.pc = "glitch"
                /\ \/ host.k > 1 /\ host' = [host EXCEPT !.k = @ - 1]
                   \/ host' = [host EXCEPT !.pc = "idle", !.k = 0, !.wait = CLKS_PER_BIT]

HostNext == \/ HostIdles \/ HostBegins \/ HostSends \/ HostNextBit \/ HostEnds
            \/ HostGlitch \/ HostGlitches

-----------------------------------------------------------------------------
(* uart_rx                                                                  *)

Synchronize == rx_d0' = uart_txd_in /\ rx_sync' = rx_d0

RxIdle ==
  /\ u_rx.state = "IDLE"
  /\ u_rx' = [u_rx EXCEPT !.valid = FALSE, !.clk_cnt = 0, !.bit_idx = 0,
                          !.state = IF rx_sync = 0 THEN "START" ELSE "IDLE"]

RxStart ==
  /\ u_rx.state = "START"
  /\ u_rx' = IF u_rx.clk_cnt # HALF THEN [u_rx EXCEPT !.valid = FALSE, !.clk_cnt = @ + 1]
             ELSE IF rx_sync = 0 THEN [u_rx EXCEPT !.valid = FALSE, !.clk_cnt = 0, !.state = "DATA"]
             ELSE [u_rx EXCEPT !.valid = FALSE, !.state = "IDLE"]

RxData ==
  /\ u_rx.state = "DATA"
  /\ u_rx' = IF u_rx.clk_cnt # LAST THEN [u_rx EXCEPT !.valid = FALSE, !.clk_cnt = @ + 1]
             ELSE [u_rx EXCEPT !.valid = FALSE, !.clk_cnt = 0, !.data[u_rx.bit_idx] = rx_sync,
                               !.bit_idx = (@ + 1) % 8,
                               !.state = IF u_rx.bit_idx = 7 THEN "STOP" ELSE "DATA"]

\* Mutant: half a bit is waited after the stop bit's middle.
RxStopLong ==
  /\ u_rx.state = "STOP"
  /\ u_rx' = IF u_rx.clk_cnt # LAST + HALF THEN [u_rx EXCEPT !.valid = FALSE, !.clk_cnt = @ + 1]
             ELSE [u_rx EXCEPT !.valid = FALSE, !.clk_cnt = 0, !.state = "DONE"]

\* Whatever the line shows.
RxStop ==
  /\ u_rx.state = "STOP"
  /\ u_rx' = IF u_rx.clk_cnt # LAST THEN [u_rx EXCEPT !.valid = FALSE, !.clk_cnt = @ + 1]
             ELSE [u_rx EXCEPT !.valid = FALSE, !.clk_cnt = 0, !.state = "DONE"]

RxDone == u_rx.state = "DONE" /\ u_rx' = [u_rx EXCEPT !.valid = TRUE, !.state = "IDLE"]

uart_rx == RxIdle \/ RxStart \/ RxData \/ RxStop \/ RxDone

-----------------------------------------------------------------------------
(* hardfuzz_top: a byte that lands while the transmitter is busy is dropped. *)

Takes == u_rx.valid /\ ~u_tx.busy

Echo == /\ tx_start' = Takes
        /\ tx_data' = IF Takes THEN u_rx.data ELSE tx_data

-----------------------------------------------------------------------------
(* uart_tx                                                                  *)

TxIdle ==
  /\ u_tx.state = "IDLE"
  /\ u_tx' = [u_tx EXCEPT !.tx = 1, !.clk_cnt = 0, !.bit_idx = 0, !.busy = tx_start,
                          !.shreg = IF tx_start THEN tx_data ELSE @,
                          !.state = IF tx_start THEN "START" ELSE "IDLE"]

TxStart ==
  /\ u_tx.state = "START"
  /\ u_tx' = IF u_tx.clk_cnt # LAST THEN [u_tx EXCEPT !.tx = 0, !.clk_cnt = @ + 1]
             ELSE [u_tx EXCEPT !.tx = 0, !.clk_cnt = 0, !.state = "DATA"]

TxData ==
  /\ u_tx.state = "DATA"
  /\ u_tx' = IF u_tx.clk_cnt # LAST THEN [u_tx EXCEPT !.tx = u_tx.shreg[u_tx.bit_idx], !.clk_cnt = @ + 1]
             ELSE [u_tx EXCEPT !.tx = u_tx.shreg[u_tx.bit_idx], !.clk_cnt = 0, !.bit_idx = (@ + 1) % 8,
                               !.state = IF u_tx.bit_idx = 7 THEN "STOP" ELSE "DATA"]

\* Mutant: two stop bits.
TxStopTwice ==
  /\ u_tx.state = "STOP"
  /\ u_tx' = IF u_tx.clk_cnt # LAST + CLKS_PER_BIT THEN [u_tx EXCEPT !.tx = 1, !.clk_cnt = @ + 1]
             ELSE [u_tx EXCEPT !.tx = 1, !.clk_cnt = 0, !.busy = FALSE, !.state = "IDLE"]

TxStop ==
  /\ u_tx.state = "STOP"
  /\ u_tx' = IF u_tx.clk_cnt # LAST THEN [u_tx EXCEPT !.tx = 1, !.clk_cnt = @ + 1]
             ELSE [u_tx EXCEPT !.tx = 1, !.clk_cnt = 0, !.busy = FALSE, !.state = "IDLE"]

uart_tx == TxIdle \/ TxStart \/ TxData \/ TxStop

\* btn[0]: everything but the synchronizer.
Reset ==
  /\ u_rx' = [state |-> "IDLE", clk_cnt |-> 0, bit_idx |-> 0, valid |-> FALSE, data |-> Blank]
  /\ u_tx' = [state |-> "IDLE", clk_cnt |-> 0, bit_idx |-> 0, shreg |-> Blank, tx |-> 1, busy |-> FALSE]
  /\ tx_start' = FALSE /\ tx_data' = Blank

-----------------------------------------------------------------------------
(* The host's receiver: from the falling edge, the middle of each bit by    *)
(* the host's clock.  term.k counts the bits sampled, the start bit's first; *)
(* at 10 the byte is received.                                              *)

Middle == 2 * term.t >= (2 * term.k - 1) * line.rate

TermIdles == term.k = 0 /\ u_tx.tx = 1 /\ UNCHANGED term

TermFalls == term.k = 0 /\ u_tx.tx = 0 /\ term' = [k |-> 1, t |-> 0, bits |-> Blank]

TermWaits == term.k \in 1 .. 10 /\ ~Middle /\ term' = [term EXCEPT !.t = @ + SUB]

Resting == [k |-> 0, t |-> 0, bits |-> Blank]

\* A low pulse that is no start bit, or a frame without its stop bit, is not a byte.
TermSamples ==
  /\ term.k \in 1 .. 10 /\ Middle
  /\ term' = IF term.k = 1 THEN IF u_tx.tx = 0 THEN [term EXCEPT !.k = 2, !.t = @ + SUB] ELSE Resting
             ELSE IF term.k < 10
             THEN [term EXCEPT !.k = @ + 1, !.t = @ + SUB, !.bits[term.k - 2] = u_tx.tx]
             ELSE IF u_tx.tx = 1 THEN [term EXCEPT !.k = 11] ELSE Resting

TermTakes == term.k = 11 /\ term' = Resting

TermNext == TermIdles \/ TermFalls \/ TermWaits \/ TermSamples \/ TermTakes

-----------------------------------------------------------------------------
Drop1(s) == IF s = <<>> THEN s ELSE Tail(s)

\* Nobody is in the middle of anything.
AtRest == /\ host.pc = "idle" /\ rx_d0 = 1 /\ rx_sync = 1 /\ u_rx.state = "IDLE" /\ ~u_rx.valid
          /\ ~tx_start /\ u_tx.state = "IDLE" /\ ~u_tx.busy /\ u_tx.tx = 1 /\ term.k = 0

History(rst) ==
  /\ calm' = (~rst /\ (calm \/ AtRest))
  /\ IF ~calm' THEN owed' = <<>> /\ due' = <<>>
     ELSE /\ owed' = LET rest == IF u_rx.valid THEN Drop1(owed) ELSE owed IN
                     IF host'.pc = "send" /\ host'.k = 0 /\ (host.pc = "idle" \/ host.k = 9)
                     THEN Append(rest, host'.byte) ELSE rest
          /\ due'  = LET rest == IF term.k = 11 THEN Drop1(due) ELSE due IN
                     IF Takes \/ (u_rx.valid /\ line.gap >= CLKS_PER_BIT)
                     THEN Append(rest, u_rx.data) ELSE rest

Clock(rst) ==
  /\ HostNext /\ Synchronize /\ TermNext
  /\ IF rst THEN Reset ELSE uart_rx /\ Echo /\ uart_tx
  /\ History(rst)
  /\ UNCHANGED line

EchoNext == \/ Clock(FALSE) /\ UNCHANGED resets
            \/ resets < line.resets /\ resets' = resets + 1 /\ Clock(TRUE)

EchoSpec == EchoInit /\ [][EchoNext]_echoVars
-----------------------------------------------------------------------------
(* Properties                                                              *)

\* Every variable keeps its type.
RxRegs == [state : {"IDLE", "START", "DATA", "STOP", "DONE"}, clk_cnt : 0 .. LAST, bit_idx : 0 .. 7,
           valid : BOOLEAN, data : [0 .. 7 -> Bit]]
TxRegs == [state : {"IDLE", "START", "DATA", "STOP"}, clk_cnt : 0 .. LAST, bit_idx : 0 .. 7,
           shreg : [0 .. 7 -> Bit], tx : Bit, busy : BOOLEAN]
EchoTypes ==
  /\ rx_d0 \in Bit /\ rx_sync \in Bit /\ u_rx \in RxRegs /\ u_tx \in TxRegs
  /\ tx_start \in BOOLEAN /\ tx_data \in [0 .. 7 -> Bit]
  /\ host \in [pc : {"idle", "send", "glitch"}, k : Nat, t : Nat, byte : [0 .. 7 -> Bit], wait : Nat]
  /\ term \in [k : 0 .. 11, t : Nat, bits : [0 .. 7 -> Bit]]
  /\ line \in Lines /\ resets \in Nat /\ calm \in BOOLEAN
  /\ owed \in Seq([0 .. 7 -> Bit]) /\ due \in Seq([0 .. 7 -> Bit])

\* uart_rx.v:5: what valid announces is what the host sent, bit for bit, in order and
\* once, although the two clocks differ and drift apart within the frame; a pulse that is
\* no start bit announces nothing.
BytesIntact == calm /\ u_rx.valid => owed # <<>> /\ u_rx.data = owed[1]

\* uart_rx is back in idle for the next start bit, however close the host sends: before
\* a byte's first data bit begins the one before is delivered, and none is ever left over.
NoneSwallowed ==
  calm => /\ host.pc = "send" /\ host.k > 0 => Len(owed) <= 1
          /\ AtRest => owed = <<>>

\* Each byte sent is delivered once, as it was sent and in its turn; what a reset upsets
\* is over once everything has been at rest.
Delivers == BytesIntact /\ NoneSwallowed

\* hardfuzz_top.v:71: with a second stop bit between bytes the echo drops none.  Without
\* one, those it takes reach the host as they were, once and in order, by the host's clock.
EchoesAll ==
  calm => /\ term.k = 11 => due # <<>> /\ term.bits = due[1]
          /\ AtRest => due = <<>>
=============================================================================

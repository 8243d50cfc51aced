----------------------------- MODULE SpiInject -----------------------------
(***************************************************************************)
(* The SPI injector: spi_slave, bitflip_inj and the counter of             *)
(* spi_inject_top, with the DUT as SPI master (run_spi).                   *)
(*                                                                         *)
(* A step is an edge on a pin, or a register write, as the FPGA clock sees *)
(* it; SCLK is slow enough (16 MHz / 32 against 12 MHz) for every edge to  *)
(* be a step of its own.  The master samples MISO at the rising edge,      *)
(* before the slave has seen that edge.  A byte is a function on 1..BITS,  *)
(* most significant bit first, as on the wire.                             *)
(***************************************************************************)
EXTENDS Naturals

CONSTANTS
  BITS,       \* bits of a byte (8)
  FRAME_MOD,  \* values of frame_idx (2^16)
  COUNT_MOD,  \* values of flip_count (2^8)
  Targets     \* <<frame, bit>> pairs the host arms

ASSUME SpiOK ==
  /\ BITS \in Nat /\ BITS > 1
  /\ FRAME_MOD \in Nat /\ FRAME_MOD > 1
  /\ COUNT_MOD \in Nat /\ COUNT_MOD > 1
  /\ Targets \subseteq (0 .. FRAME_MOD - 1) \X (0 .. BITS - 1)

Bit   == {0, 1}
Byte  == [1 .. BITS -> Bit]
Zeros == [k \in 1 .. BITS |-> 0]

VARIABLES
  cs, sclk,                  \* pins: selected, clock level
  rx_shift, tx_byte, resp,   \* spi_slave: shift in, shift out, echo for the next byte
  bit_cnt, tx_pos, reload,   \* spi_slave: rising edges in this byte, MISO position, reload at fall
  frame_idx,                 \* spi_slave: byte within the transaction
  enable, target,            \* registers: armed, <<target_frame, target_bit>>
  flip_count,                \* spi_inject_top: rising edges of flip_active
  (* the master, and history *)
  n,                         \* bits of the current byte exchanged
  sent, recv,                \* the current byte so far, out and in
  echo, prev,                \* what should come back in this byte, in the next one
  frame,                     \* the current byte's number in the transaction
  hits, count0,              \* bits read wrong, and flip_count, since the select
  quiet,                     \* no register write since the select
  synced                     \* no reset since the select

slaveVars  == <<rx_shift, tx_byte, resp, bit_cnt, tx_pos, reload, frame_idx>>
cfgVars    == <<enable, target>>
masterVars == <<n, sent, recv, echo, prev, frame, hits, count0>>
vars == <<cs, sclk, slaveVars, cfgVars, flip_count, masterVars, quiet, synced>>

-----------------------------------------------------------------------------
(* The wires                                                               *)

bit_num  == BITS - 1 - tx_pos
miso_bit == tx_byte[tx_pos + 1]

\* bitflip_inj: high during the injected bit.
flip_active == enable /\ frame_idx = target[1] /\ bit_num = target[2]

miso == IF flip_active THEN 1 - miso_bit ELSE miso_bit

\* Mutant: every step with flip_active high counts.
CountLevel ==
  flip_count' = IF flip_active' THEN (flip_count + 1) % COUNT_MOD ELSE flip_count

\* The counter sees a rising edge of flip_active.
CountFlip ==
  flip_count' = IF flip_active' /\ ~flip_active THEN (flip_count + 1) % COUNT_MOD
                ELSE flip_count

Init ==
  /\ cs = FALSE /\ sclk = 0
  /\ rx_shift = Zeros /\ tx_byte = Zeros /\ resp = Zeros
  /\ bit_cnt = 0 /\ tx_pos = 0 /\ reload = FALSE /\ frame_idx = 0
  /\ enable = FALSE /\ target = <<0, 0>> /\ flip_count = 0
  /\ n = 0 /\ sent = Zeros /\ recv = Zeros /\ echo = Zeros /\ prev = Zeros
  /\ frame = 0 /\ hits = 0 /\ count0 = 0 /\ quiet = FALSE /\ synced = TRUE

-----------------------------------------------------------------------------
(* Edges                                                                   *)

\* Mutant: the bit counters are not restarted by the select.
CsLowKeepsCounts ==
  /\ ~cs /\ sclk = 0 /\ cs' = TRUE
  /\ tx_pos' = 0 /\ tx_byte' = resp /\ reload' = FALSE /\ frame_idx' = 0
  /\ n' = 0 /\ sent' = Zeros /\ recv' = Zeros /\ frame' = 0
  /\ echo' = IF synced THEN prev ELSE resp
  /\ prev' = IF synced THEN prev ELSE resp
  /\ hits' = 0 /\ count0' = flip_count /\ quiet' = TRUE /\ synced' = TRUE
  /\ UNCHANGED <<sclk, rx_shift, resp, bit_cnt, cfgVars>>
  /\ CountFlip

\* cs_assert: everything but rx_shift and resp starts over.
CsLow ==
  /\ ~cs /\ sclk = 0 /\ cs' = TRUE
  /\ bit_cnt' = 0 /\ tx_pos' = 0 /\ tx_byte' = resp /\ reload' = FALSE /\ frame_idx' = 0
  /\ n' = 0 /\ sent' = Zeros /\ recv' = Zeros /\ frame' = 0
  /\ echo' = IF synced THEN prev ELSE resp
  /\ prev' = IF synced THEN prev ELSE resp
  /\ hits' = 0 /\ count0' = flip_count /\ quiet' = TRUE /\ synced' = TRUE
  /\ UNCHANGED <<sclk, rx_shift, resp, cfgVars>>
  /\ CountFlip

ShiftIn(b) == [k \in 1 .. BITS |-> IF k < BITS THEN rx_shift[k + 1] ELSE b]

\* The slave's half of a rising edge; a clr_frame strobe in the same cycle is
\* lost when the byte completes, whose assignment to frame_idx comes later.
SampleMosi(b, clr) ==
  /\ rx_shift' = ShiftIn(b)
  /\ IF bit_cnt = BITS - 1
     THEN /\ resp' = ShiftIn(b) /\ bit_cnt' = 0 /\ reload' = TRUE
          /\ frame_idx' = (frame_idx + 1) % FRAME_MOD
     ELSE /\ bit_cnt' = bit_cnt + 1
          /\ frame_idx' = IF clr THEN 0 ELSE frame_idx
          /\ UNCHANGED <<resp, reload>>

SclkRise(b, clr) ==
  /\ cs /\ sclk = 0 /\ sclk' = 1
  /\ recv' = [recv EXCEPT ![n + 1] = miso]
  /\ hits' = IF miso # miso_bit THEN (hits + 1) % COUNT_MOD ELSE hits
  /\ sent' = [sent EXCEPT ![n + 1] = b]
  /\ prev' = IF n + 1 = BITS THEN sent' ELSE prev
  /\ n' = n + 1
  /\ SampleMosi(b, clr)
  /\ quiet' = (quiet /\ ~clr)
  /\ UNCHANGED <<cs, tx_byte, tx_pos, cfgVars, echo, frame, count0, synced>>
  /\ CountFlip

\* Mutant: the next byte's answer is not loaded, the last one goes out again.
NoReload ==
  /\ tx_pos' = IF reload THEN 0 ELSE (tx_pos + 1) % BITS
  /\ reload' = FALSE /\ UNCHANGED tx_byte

\* The slave's half of a falling edge.
AdvanceMiso ==
  IF reload
  THEN tx_byte' = resp /\ tx_pos' = 0 /\ reload' = FALSE
  ELSE tx_pos' = (tx_pos + 1) % BITS /\ UNCHANGED <<tx_byte, reload>>

SclkFall ==
  /\ cs /\ sclk = 1 /\ sclk' = 0
  /\ AdvanceMiso
  /\ IF n = BITS
     THEN /\ n' = 0 /\ sent' = Zeros /\ recv' = Zeros /\ echo' = prev
          /\ frame' = (frame + 1) % FRAME_MOD
     ELSE UNCHANGED <<n, sent, recv, echo, frame>>
  /\ UNCHANGED <<cs, rx_shift, resp, bit_cnt, frame_idx, cfgVars, prev, hits, count0,
                 quiet, synced>>
  /\ CountFlip

\* The master lets go: after a byte, often before its last falling edge (spi_xfer
\* waits for RXNE only), or in the middle of one when it is reset.
CsHigh ==
  /\ cs /\ cs' = FALSE
  /\ n' = 0 /\ sent' = Zeros /\ recv' = Zeros /\ frame' = 0 /\ hits' = 0 /\ count0' = 0
  /\ echo' = Zeros /\ quiet' = FALSE
  /\ UNCHANGED <<sclk, slaveVars, cfgVars, flip_count, prev, synced>>

SclkIdle ==
  /\ ~cs /\ sclk = 1 /\ sclk' = 0
  /\ UNCHANGED <<cs, slaveVars, cfgVars, flip_count, masterVars, quiet, synced>>

-----------------------------------------------------------------------------
(* The host and the reset button                                           *)

Configure(e, t) ==
  /\ enable' = e /\ target' = t /\ quiet' = FALSE
  /\ UNCHANGED <<cs, sclk, slaveVars, masterVars, synced>>
  /\ CountFlip

\* reg0 written with bit 1 set.
ClrFrame ==
  /\ frame_idx' = 0 /\ quiet' = FALSE
  /\ UNCHANGED <<cs, sclk, rx_shift, tx_byte, resp, bit_cnt, tx_pos, reload, cfgVars,
                 masterVars, synced>>
  /\ CountFlip

Reset ==
  /\ rx_shift' = Zeros /\ tx_byte' = Zeros /\ resp' = Zeros
  /\ bit_cnt' = 0 /\ tx_pos' = 0 /\ reload' = FALSE /\ frame_idx' = 0
  /\ enable' = FALSE /\ target' = <<0, 0>> /\ flip_count' = 0
  /\ quiet' = FALSE /\ synced' = FALSE
  /\ UNCHANGED <<cs, sclk, masterVars>>

Next ==
  \/ CsLow \/ CsHigh \/ SclkFall \/ SclkIdle \/ ClrFrame \/ Reset
  \/ \E b \in Bit, clr \in BOOLEAN : SclkRise(b, clr)
  \/ \E e \in BOOLEAN, t \in Targets : Configure(e, t)

Spec == Init /\ [][Next]_vars
-----------------------------------------------------------------------------
(* Properties                                                              *)

\* Every register keeps its width.
TypeOK ==
  /\ cs \in BOOLEAN /\ sclk \in Bit
  /\ rx_shift \in Byte /\ tx_byte \in Byte /\ resp \in Byte
  /\ bit_cnt \in 0 .. BITS - 1 /\ tx_pos \in 0 .. BITS - 1 /\ reload \in BOOLEAN
  /\ frame_idx \in 0 .. FRAME_MOD - 1
  /\ enable \in BOOLEAN /\ target \in (0 .. FRAME_MOD - 1) \X (0 .. BITS - 1)
  /\ flip_count \in 0 .. COUNT_MOD - 1
  /\ n \in 0 .. BITS /\ sent \in Byte /\ recv \in Byte /\ echo \in Byte /\ prev \in Byte
  /\ frame \in 0 .. FRAME_MOD - 1 /\ hits \in 0 .. COUNT_MOD - 1
  /\ count0 \in 0 .. COUNT_MOD - 1 /\ quiet \in BOOLEAN /\ synced \in BOOLEAN

\* From the select on, whatever transaction was broken off before it, the slave
\* is at the bit the master is at: at each sample it presents that bit of the
\* echo, and without a clr_frame it counts the master's frames.
Aligned ==
  cs /\ synced =>
    /\ bit_cnt = n % BITS
    /\ sclk = 0 => n < BITS /\ tx_pos = n /\ tx_byte = echo
    /\ quiet => frame_idx = IF n = BITS THEN (frame + 1) % FRAME_MOD ELSE frame

\* The master reads back, in every byte, its previous byte with exactly the
\* armed bit of the armed frame inverted, and nothing else.
OneBitFlipped ==
  cs /\ quiet =>
    \A k \in 1 .. n :
      recv[k] # echo[k] <=> enable /\ frame = target[1] /\ BITS - k = target[2]

\* flip_count has gone up, since the select, by the bits that were read wrong,
\* counting one that is on the wire and not yet sampled.  This needs a target
\* past the first frame (whose flip may be up before the select) and past bit 0.
CountExact(t) ==
  cs /\ quiet /\ t =>
    flip_count = (count0 + hits + (IF flip_active /\ sclk = 0 THEN 1 ELSE 0)) % COUNT_MOD

CountExactInside == CountExact(target[1] > 0 /\ target[2] > 0)

\* spi_inject_top.v:95: the injection counter counts injections, for any target
\* past the first frame.
CountsInjections == CountExact(target[1] > 0)
=============================================================================

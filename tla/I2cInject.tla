------------------------------ MODULE I2cInject ------------------------------
(***************************************************************************)
(* The I2C injector: i2c_slave, timing_distort and the stretch counter, on *)
(* an open-drain bus with a master that waits for a stretched clock.       *)
(*                                                                         *)
(* Tick is one posedge of the FPGA clock.  The master moves its lines      *)
(* between two ticks, HALF ticks or more after it last did (or, once it    *)
(* has let SCL go, after SCL is really high), so the slave acts on what    *)
(* the bus was three ticks ago.  Lines are TRUE when high.                 *)
(***************************************************************************)
EXTENDS Naturals, Sequences

CONSTANTS
  BITS,       \* bits of a byte (8); the last of an address byte is R/W
  ADDR,       \* the slave's address byte, as written by a master that writes
  HALF,       \* ticks of half an SCL period
  INDEX_MOD,  \* values of byte_index (2^8)
  LEN_MOD,    \* values of stretch_len (2^16)
  COUNT_MOD,  \* values of stretch_count (2^16)
  Settings,   \* what the host arms: [enable, target, len, sel]
  MaxBytes    \* bound: bytes of a transaction, the address byte included

Bit == {0, 1}

ASSUME I2cOK ==
  /\ BITS \in Nat \ {0} /\ ADDR \in [1 .. BITS -> Bit] /\ ADDR[BITS] = 0
  /\ HALF \in Nat \ {0, 1, 2, 3}
  /\ INDEX_MOD \in Nat \ {0, 1} /\ LEN_MOD \in Nat \ {0} /\ COUNT_MOD \in Nat \ {0, 1}
  /\ MaxBytes \in Nat
  /\ Settings \subseteq [enable : BOOLEAN, target : 0 .. INDEX_MOD - 1, len : 0 .. LEN_MOD - 1,
                       sel : BOOLEAN]

VARIABLES
  \* the slave
  scl_sr, sda_sr, scl_d, sda_d,       \* synchronizers and edge detectors
  state, bitc, shift, active,         \* FSM, rising edges, bits in, address matched
  scl_oe, sda_oe,                     \* pulling the line low
  byte_index, stretch_cnt,
  \* the top
  cfg,                                \* the registers, and sel_i2c of multi_inject_top
  stretch_count, str_d,
  \* the master
  phase,          \* where it is, see below
  m_scl, m_sda,   \* it pulls the line low
  age,            \* ticks since, at most HALF
  mbit, mbyte,    \* slot within the byte (BITS is the ACK), byte of the transaction
  cur, acked,     \* bits of the byte so far, the last ACK slot was low
  \* history
  own,            \* the transaction's address byte was ADDR
  clean,          \* the pins showed its START; no reset and no new setting since
  exact, hits     \* the same since the counter was cleared; target bytes acknowledged since

slaveVars  == <<scl_sr, sda_sr, scl_d, sda_d, state, bitc, shift, active, scl_oe, sda_oe,
                byte_index, stretch_cnt>>
countVars  == <<stretch_count, str_d>>
masterVars == <<phase, m_scl, m_sda, age, mbit, mbyte, cur, acked, own>>
vars == <<slaveVars, cfg, countVars, masterVars, clean, exact, hits>>

\* The wired-AND of the bus; the combined bitstream drives it only while I2C is selected.
scl_pull == cfg.sel /\ scl_oe
sda_pull == cfg.sel /\ sda_oe
SCL == ~m_scl /\ ~scl_pull
SDA == ~m_sda /\ ~sda_pull

Zeros == [k \in 1 .. BITS |-> 0]

Init ==
  /\ scl_sr = <<TRUE, TRUE>> /\ sda_sr = <<TRUE, TRUE>> /\ scl_d = TRUE /\ sda_d = TRUE
  /\ state = "S_IDLE" /\ bitc = 0 /\ shift = Zeros /\ active = FALSE
  /\ scl_oe = FALSE /\ sda_oe = FALSE /\ byte_index = 0 /\ stretch_cnt = 0
  /\ cfg \in Settings /\ stretch_count = 0 /\ str_d = FALSE
  /\ phase = "free" /\ m_scl = FALSE /\ m_sda = FALSE /\ age = 0
  /\ mbit = 0 /\ mbyte = 0 /\ cur = <<>> /\ acked = FALSE
  /\ own = FALSE /\ clean = TRUE /\ exact = TRUE /\ hits = 0

-----------------------------------------------------------------------------
(* i2c_slave, one posedge                                                  *)

scl == scl_sr[2]
sda == sda_sr[2]
scl_rise == ~scl_d /\ scl
scl_fall == scl_d /\ ~scl
start_cond == scl /\ sda_d /\ ~sda
stop_cond  == scl /\ ~sda_d /\ sda

\* timing_distort
do_stretch == cfg.enable /\ cfg.sel /\ byte_index = cfg.target

Sync ==
  /\ scl_sr' = <<SCL, scl_sr[1]>> /\ sda_sr' = <<SDA, sda_sr[1]>>
  /\ scl_d' = scl /\ sda_d' = sda

\* Mutant: the bit counter is not reset.
StartKeepsBitc ==
  /\ start_cond
  /\ state' = "S_RECV" /\ shift' = Zeros /\ active' = FALSE
  /\ sda_oe' = FALSE /\ scl_oe' = FALSE /\ byte_index' = 0 /\ stretch_cnt' = 0
  /\ UNCHANGED bitc

Start ==
  /\ start_cond
  /\ state' = "S_RECV" /\ bitc' = 0 /\ shift' = Zeros /\ active' = FALSE
  /\ sda_oe' = FALSE /\ scl_oe' = FALSE /\ byte_index' = 0 /\ stretch_cnt' = 0

Stop ==
  /\ stop_cond
  /\ state' = "S_IDLE" /\ active' = FALSE
  /\ sda_oe' = FALSE /\ scl_oe' = FALSE /\ stretch_cnt' = 0
  /\ UNCHANGED <<bitc, shift, byte_index>>

S_IDLE ==
  /\ state = "S_IDLE" /\ sda_oe' = FALSE /\ scl_oe' = FALSE
  /\ UNCHANGED <<state, bitc, shift, active, byte_index, stretch_cnt>>

ShiftIn == [k \in 1 .. BITS |-> IF k < BITS THEN shift[k + 1] ELSE IF sda THEN 1 ELSE 0]

ByteComplete == scl_fall /\ bitc = BITS

\* Mutant: the R/W bit is not looked at.
MatchAnyRW == \A k \in 1 .. BITS - 1 : shift[k] = ADDR[k]

Match == shift = ADDR

S_RECV ==
  /\ state = "S_RECV"
  /\ shift' = IF scl_rise THEN ShiftIn ELSE shift
  /\ bitc' = IF ByteComplete THEN 0 ELSE IF scl_rise THEN bitc + 1 ELSE bitc
  /\ state' = IF ByteComplete THEN "S_ACK" ELSE "S_RECV"
  /\ IF ~ByteComplete THEN UNCHANGED <<sda_oe, active>>
     ELSE IF byte_index = 0 THEN sda_oe' = Match /\ active' = Match
     ELSE sda_oe' = TRUE /\ UNCHANGED active
  /\ UNCHANGED <<scl_oe, byte_index, stretch_cnt>>

NextIndex == (byte_index + 1) % INDEX_MOD

\* Mutant: SDA is released as soon as the ninth clock is high.
AckOneEdgeEarly ==
  /\ state = "S_ACK" /\ sda_oe' = (sda_oe /\ ~scl_rise /\ ~scl_fall)
  /\ IF ~scl_fall THEN UNCHANGED <<state, byte_index, stretch_cnt, scl_oe>>
     ELSE /\ byte_index' = NextIndex
          /\ scl_oe' = (active /\ do_stretch)
          /\ stretch_cnt' = IF active /\ do_stretch THEN cfg.len ELSE stretch_cnt
          /\ state' = IF ~active THEN "S_IDLE" ELSE IF do_stretch THEN "S_STRETCH" ELSE "S_RECV"
  /\ UNCHANGED <<bitc, shift, active>>

\* The ninth falling edge: release SDA, and stretch if this was the target byte.
S_ACK ==
  /\ state = "S_ACK"
  /\ IF ~scl_fall THEN UNCHANGED <<state, sda_oe, byte_index, stretch_cnt, scl_oe>>
     ELSE /\ sda_oe' = FALSE /\ byte_index' = NextIndex
          /\ IF active /\ do_stretch
             THEN stretch_cnt' = cfg.len /\ scl_oe' = TRUE /\ state' = "S_STRETCH"
             ELSE /\ state' = IF active THEN "S_RECV" ELSE "S_IDLE"
                  /\ UNCHANGED <<stretch_cnt, scl_oe>>
  /\ UNCHANGED <<bitc, shift, active>>

\* Mutant: waits for the master's clock to come up before it counts on.
StretchWaitsForClock ==
  /\ state = "S_STRETCH"
  /\ IF stretch_cnt # 0
     THEN /\ stretch_cnt' = IF scl THEN stretch_cnt - 1 ELSE stretch_cnt
          /\ UNCHANGED <<state, scl_oe>>
     ELSE scl_oe' = FALSE /\ state' = "S_RECV" /\ UNCHANGED stretch_cnt
  /\ UNCHANGED <<bitc, shift, active, sda_oe, byte_index>>

S_STRETCH ==
  /\ state = "S_STRETCH"
  /\ IF stretch_cnt # 0
     THEN stretch_cnt' = stretch_cnt - 1 /\ UNCHANGED <<state, scl_oe>>
     ELSE scl_oe' = FALSE /\ state' = "S_RECV" /\ UNCHANGED stretch_cnt
  /\ UNCHANGED <<bitc, shift, active, sda_oe, byte_index>>

Fsm == \/ Start
       \/ Stop
       \/ ~start_cond /\ ~stop_cond /\ (S_IDLE \/ S_RECV \/ S_ACK \/ S_STRETCH)

-----------------------------------------------------------------------------
(* The top: rising edges of `stretching`, which is high exactly while      *)
(* scl_oe is.                                                              *)

CountLevel(clr) ==   \* Mutant: every clock of a stretch is counted.
  /\ stretch_count' = IF clr THEN 0
                      ELSE IF scl_oe THEN (stretch_count + 1) % COUNT_MOD ELSE stretch_count
  /\ str_d' = (~clr /\ scl_oe)

Count(clr) ==
  /\ stretch_count' = IF clr THEN 0
                      ELSE IF scl_oe /\ ~str_d THEN (stretch_count + 1) % COUNT_MOD
                      ELSE stretch_count
  /\ str_d' = (~clr /\ scl_oe)

\* For the master: SCL is held low although it has let go.
Stretched == ~m_scl /\ ~SCL

\* The counter is in step with the bus from here on, if it is cleared now.
BusFree == phase = "free" /\ age = HALF /\ ~scl_oe

\* clr is a write of control bit 1.
Tick(clr) ==
  /\ Sync /\ Fsm /\ Count(clr)
  /\ age' = IF Stretched THEN 0 ELSE IF age < HALF THEN age + 1 ELSE HALF
  /\ exact' = IF clr THEN BusFree ELSE exact
  /\ hits' = IF clr THEN 0 ELSE hits
  /\ UNCHANGED <<cfg, phase, m_scl, m_sda, mbit, mbyte, cur, acked, own, clean>>

Reset ==
  /\ state' = "S_IDLE" /\ bitc' = 0 /\ shift' = Zeros /\ active' = FALSE
  /\ scl_oe' = FALSE /\ sda_oe' = FALSE /\ byte_index' = 0 /\ stretch_cnt' = 0
  /\ stretch_count' = 0 /\ str_d' = FALSE
  /\ Sync /\ age' = IF Stretched THEN 0 ELSE IF age < HALF THEN age + 1 ELSE HALF
  /\ clean' = (clean /\ phase = "free") /\ exact' = BusFree /\ hits' = 0
  /\ UNCHANGED <<cfg, phase, m_scl, m_sda, mbit, mbyte, cur, acked, own>>

\* The host re-arms, disarms or selects the other protocol, one register at a time;
\* what the parameters are while it does so is not followed.
Configure(c) ==
  /\ c # cfg /\ cfg' = c
  /\ clean' = (clean /\ phase = "free") /\ exact' = (exact /\ phase = "free" /\ age = HALF)
  /\ UNCHANGED <<slaveVars, countVars, masterVars, hits>>

-----------------------------------------------------------------------------
(* The master.  "free"; "start" SDA low, SCL not yet; "low" SCL pulled low, *)
(* the slot not yet driven; "set" the slot driven; "high" SCL let go;       *)
(* "stop" and "restart" as "set", "stopHigh" and "restartHigh" as "high".   *)

Step == /\ age' = 0 /\ UNCHANGED <<slaveVars, cfg, countVars>>

\* A START shows if SCL is high and SDA was at the posedge before: it does not if the slave was
\* holding one of them and a reset or a new setting made it let go, or pull, since.
StartShows == SCL /\ sda_sr[1]
FromHere == clean' = StartShows /\ exact' = (exact /\ StartShows)

\* The bus is not busy (SR2_BUSY), and SDA falls.
MStart ==
  /\ phase = "free" /\ age = HALF /\ SCL /\ SDA
  /\ phase' = "start" /\ m_sda' = TRUE /\ FromHere /\ own' = FALSE
  /\ mbyte' = 0 /\ mbit' = 0 /\ cur' = <<>> /\ acked' = FALSE
  /\ Step /\ UNCHANGED <<m_scl, hits>>

MStartLow ==
  /\ phase = "start" /\ age = HALF /\ phase' = "low" /\ m_scl' = TRUE
  /\ Step /\ UNCHANGED <<m_sda, mbit, mbyte, cur, acked, own, clean, exact, hits>>

\* The next bit of the byte, or the first of the next byte.
MSetBit(b) ==
  /\ phase = "low" /\ phase' = "set" /\ m_sda' = (b = 0)
  /\ \/ mbit < BITS /\ cur' = Append(cur, b) /\ UNCHANGED <<mbit, mbyte>>
     \/ /\ mbit = BITS + 1 /\ acked /\ mbyte + 1 < MaxBytes
        /\ cur' = <<b>> /\ mbit' = 0 /\ mbyte' = mbyte + 1
  /\ Step /\ UNCHANGED <<m_scl, acked, own, clean, exact, hits>>

MSetAck ==
  /\ phase = "low" /\ mbit = BITS /\ phase' = "set" /\ m_sda' = FALSE
  /\ own' = IF mbyte = 0 THEN cur = ADDR ELSE own
  /\ Step /\ UNCHANGED <<m_scl, mbit, mbyte, cur, acked, clean, exact, hits>>

\* SCL let go, at the end of "set", "stop" or "restart".
MRelease ==
  /\ phase \in {"set", "stop", "restart"} /\ age = HALF /\ m_scl' = FALSE
  /\ phase' = CASE phase = "set" -> "high" [] phase = "stop" -> "stopHigh"
                [] phase = "restart" -> "restartHigh"
  /\ Step /\ UNCHANGED <<m_sda, mbit, mbyte, cur, acked, own, clean, exact, hits>>

\* End of a slot; in the ACK slot SDA is read first.
MLow ==
  /\ phase = "high" /\ age = HALF /\ phase' = "low" /\ m_scl' = TRUE /\ mbit' = mbit + 1
  /\ IF mbit = BITS
     THEN /\ acked' = ~SDA
          /\ hits' = IF ~SDA /\ cfg.enable /\ mbyte % INDEX_MOD = cfg.target
                     THEN (hits + 1) % COUNT_MOD ELSE hits
     ELSE UNCHANGED <<acked, hits>>
  /\ Step /\ UNCHANGED <<m_sda, mbyte, cur, own, clean, exact>>

\* STOP or a repeated START, after a byte or giving one up.
MEnd(p) ==
  /\ phase = "low" /\ mbit # BITS /\ (mbit > 0 \/ mbyte > 0)
  /\ phase' = p /\ m_sda' = (p = "stop")
  /\ Step /\ UNCHANGED <<m_scl, mbit, mbyte, cur, acked, own, clean, exact, hits>>

MStop ==
  /\ phase = "stopHigh" /\ age = HALF /\ phase' = "free" /\ m_sda' = FALSE
  /\ Step /\ UNCHANGED <<m_scl, mbit, mbyte, cur, acked, own, clean, exact, hits>>

\* Finding SDA low the master has lost the bus and lets go of it.
MRestart ==
  /\ phase = "restartHigh" /\ age = HALF
  /\ IF SDA THEN /\ phase' = "start" /\ m_sda' = TRUE /\ FromHere /\ own' = FALSE
                 /\ mbyte' = 0 /\ mbit' = 0 /\ cur' = <<>> /\ acked' = FALSE
     ELSE phase' = "free" /\ UNCHANGED <<m_sda, clean, exact, own, mbyte, mbit, cur, acked>>
  /\ Step /\ UNCHANGED <<m_scl, hits>>

Master == \/ MStart \/ MStartLow \/ \E b \in Bit : MSetBit(b)
          \/ MSetAck \/ MRelease \/ MLow
          \/ \E p \in {"stop", "restart"} : MEnd(p)
          \/ MStop \/ MRestart

Next == \/ \E clr \in BOOLEAN : Tick(clr)
        \/ Reset \/ \E c \in Settings : Configure(c)
        \/ Master

Spec == Init /\ [][Next]_vars

\* The FPGA's clock runs.
FairSpec == Spec /\ WF_vars(Tick(FALSE))
-----------------------------------------------------------------------------
(* Properties                                                              *)

\* Every register keeps its width.
TypeOK ==
  /\ \A s \in {scl_sr, sda_sr} : s \in BOOLEAN \X BOOLEAN
  /\ state \in {"S_IDLE", "S_RECV", "S_ACK", "S_STRETCH"}
  /\ bitc \in 0 .. BITS /\ shift \in [1 .. BITS -> Bit]
  /\ byte_index \in 0 .. INDEX_MOD - 1 /\ stretch_count \in 0 .. COUNT_MOD - 1
  /\ stretch_cnt \in 0 .. LEN_MOD - 1
  /\ (scl_oe <=> state = "S_STRETCH") /\ (sda_oe => state = "S_ACK")
  /\ cfg \in Settings /\ mbit \in 0 .. BITS + 1 /\ age \in 0 .. HALF

\* The slave is where the master is when SCL is about to rise, whatever was
\* given up before: it has the bits sent so far and counts the same byte.
Aligned ==
  clean /\ age = HALF =>
    /\ phase = "set" /\ mbit < BITS =>
         /\ state \in {"S_RECV"} \cup (IF mbit = 0 /\ mbyte > 0 THEN {"S_STRETCH"} ELSE {})
         /\ bitc = mbit /\ \A k \in 1 .. mbit : shift[BITS - mbit + k] = cur[k]
         /\ byte_index = mbyte % INDEX_MOD
    /\ phase = "set" /\ mbit = BITS =>
         state = "S_ACK" /\ shift = cur /\ byte_index = mbyte % INDEX_MOD
    /\ phase = "free" => state = "S_IDLE"

\* The slave acknowledges the transactions addressed to it, every byte of them
\* up to the one where byte_index comes round, and no others.
AcksOwn ==
  clean /\ phase = "low" /\ mbit = BITS + 1 /\ mbyte < INDEX_MOD =>
    (acked <=> own /\ cfg.sel)

\* SCL is held only after the acknowledged target byte of a transaction of ours.
StretchOnTarget ==
  clean /\ scl_pull =>
    /\ cfg.enable /\ own /\ acked
    /\ IF mbit = BITS + 1 \/ phase \in {"stop", "stopHigh", "restart", "restartHigh"}
       THEN mbyte % INDEX_MOD = cfg.target
       ELSE mbit = 0 /\ (mbyte - 1) % INDEX_MOD = cfg.target

\* The counter is the number of target bytes the master got acknowledged since
\* it was cleared with the bus free: none missed, none counted twice.
CountsStretches ==
  clean /\ exact /\ age = HALF /\ phase # "high" =>
    hits = (stretch_count + (IF scl_oe /\ ~str_d THEN 1 ELSE 0)) % COUNT_MOD

\* timing_distort.v, i2c_inject_top.v: the bus is stretched after the armed byte of our
\* transactions and nowhere else, and each time is counted.
StretchesRight == StretchOnTarget /\ CountsStretches

\* The slave lets SDA alone while SCL is high: it never makes a START or STOP.
SdaStable == [][clean /\ clean' /\ SCL /\ SCL' => sda_pull' = sda_pull]_vars

\* The bus does not hang: SCL comes up for a master that has let it go.
StretchEnds == Stretched ~> ~Stretched
=============================================================================

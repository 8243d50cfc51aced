--------------------------- MODULE I2cInjectProofs ---------------------------
(***************************************************************************)
(* Theorems about the I2C slave and its clock stretching, for every width  *)
(* of a byte, every address, bit time, counter width and setting, and for  *)
(* transactions of any length.                                             *)
(***************************************************************************)
EXTENDS I2cInject, Integers, TLAPS

-----------------------------------------------------------------------------
(* The invariant.  Without a word about START: the registers, the master's *)
(* own bookkeeping, and SCL, which the slave hears three ticks late.       *)

Registers ==
  /\ TypeOK /\ hits \in 0 .. COUNT_MOD - 1
  /\ state \in {"S_ACK", "S_STRETCH"} => bitc = 0
  /\ state = "S_RECV" /\ bitc = BITS => scl_d
  /\ state = "S_ACK" => ~str_d

\* The slot is driven or about to be; the number of bits the master has sent of its byte.
Driven == phase \in {"set", "high"}
Sent == IF mbit >= BITS THEN BITS ELSE IF Driven THEN mbit + 1 ELSE mbit

MasterOK ==
  /\ phase \in {"free", "start", "low", "set", "high", "stop", "stopHigh", "restart", "restartHigh"}
  /\ (m_scl <=> phase \in {"low", "set", "stop", "restart"})
  /\ mbyte \in Nat /\ cur \in Seq(Bit)
  /\ phase \in {"start", "stop", "stopHigh"} => m_sda
  /\ phase \in {"free", "restart", "restartHigh"} => ~m_sda
  /\ Driven => mbit <= BITS /\ (m_sda <=> mbit < BITS /\ cur[mbit + 1] = 0)
  /\ phase = "start" => mbit = 0 /\ mbyte = 0 /\ Len(cur) = 0
  /\ phase \in {"stop", "restart", "stopHigh", "restartHigh"} => mbit # BITS
  /\ phase \in {"low", "set", "high"} => Len(cur) = Sent
  /\ phase = "low" /\ mbit = 0 => mbyte = 0

\* The samples of SCL since the master last moved it, as long as it was not stretched.
HearsSCL ==
  /\ age >= 1 => (scl_sr[1] <=> ~m_scl)
  /\ age >= 2 => (scl_sr[2] <=> ~m_scl)
  /\ age >= 3 => (scl_d <=> ~m_scl)

\* The counter is only followed over transactions the slave follows.
CountFrom == exact => clean \/ BusFree
-----------------------------------------------------------------------------
(* What holds once a START has shown.  First, where the slave is.          *)

\* It has the first n bits of this byte.
Receives(n) ==
  /\ state = "S_RECV" /\ bitc = n /\ byte_index = mbyte % INDEX_MOD
  /\ \A k \in 1 .. n : shift[BITS - n + k] = cur[k]
  /\ mbyte > 0 => active

\* It acknowledges byte n, or does not.
Acks(n) ==
  /\ state = "S_ACK" /\ byte_index = n % INDEX_MOD
  /\ (sda_oe <=> active) /\ (byte_index # 0 => active)

AcksThis ==
  /\ Acks(mbyte) /\ shift = cur
  /\ byte_index = 0 => (active <=> cur = ADDR)

\* It has acknowledged byte n, and may be holding SCL for it.
Acked(n) ==
  /\ byte_index = (n + 1) % INDEX_MOD
  /\ IF ~active THEN state = "S_IDLE"
     ELSE \/ state = "S_RECV" /\ bitc = 0
          \/ state = "S_STRETCH" /\ cfg.enable /\ cfg.sel /\ n % INDEX_MOD = cfg.target

\* While SCL is low: scl_d is up until its falling edge has been acted on.
Low ==
  \/ mbit < BITS /\ Receives(mbit)
  \/ mbit = BITS /\ (IF scl_d THEN Receives(BITS) ELSE AcksThis)
  \/ mbit = BITS + 1 /\ (IF scl_d THEN Acks(mbyte) ELSE Acked(mbyte))

NextByte == mbit = 0 /\ mbyte > 0

Set ==
  IF NextByte THEN active /\ (IF scl_d THEN Acks(mbyte - 1) ELSE Acked(mbyte - 1)) ELSE Low

\* And high: scl_d is down until the rising edge has been.
High ==
  \/ NextByte /\ ~scl_d /\ active /\ Acked(mbyte - 1)
  \/ mbit < BITS /\ ~(NextByte /\ ~scl_d) /\ Receives(IF scl_d THEN mbit + 1 ELSE mbit)
  \/ mbit = BITS /\ AcksThis

\* After the last byte; a STOP or START is on its way.
Leaving ==
  /\ state # "S_ACK"
  /\ scl_oe => cfg.enable /\ cfg.sel /\ active /\ mbit = BITS + 1 /\ mbyte % INDEX_MOD = cfg.target

Follows ==
  /\ phase = "start" /\ age >= 3 => Receives(0)
  /\ phase \in {"low", "stop", "restart"} => Low
  /\ phase = "set" => Set
  /\ phase = "high" => High
  /\ phase \in {"stopHigh", "restartHigh"} => Leaving

\* What the master knows of it.
Knows ==
  /\ mbyte > 0 => own
  /\ mbyte > 0 /\ mbit <= BITS => acked /\ cfg.sel
  /\ Driven /\ mbit = BITS /\ mbyte = 0 => (own <=> cur = ADDR)
  /\ mbit = BITS + 1 => /\ acked <=> cfg.sel /\ active
                        /\ active => own
                        /\ mbyte < INDEX_MOD => (active <=> own)
-----------------------------------------------------------------------------
(* Next, what the slave has heard of the lines.                            *)

\* SDA did not move while SCL was high, and its last move is heard in time.
HearsLow ==
  /\ scl_sr[1] => scl_sr[2] /\ (sda_sr[1] <=> sda_sr[2])
  /\ scl_sr[2] => scl_d /\ (sda_sr[2] <=> sda_d)
  /\ phase # "low" /\ age >= 4 => (sda_sr[1] <=> SDA)

HearsHigh ==
  /\ (scl_sr[1] <=> age >= 1) /\ (scl_sr[2] <=> age >= 2) /\ (scl_d <=> age >= 3)
  /\ sda_sr[1] <=> SDA
  /\ age >= 1 => (sda_sr[2] <=> SDA)
  /\ age >= 2 => (sda_d <=> SDA)
  /\ scl_oe => age = 0

\* A START, which is found at the third tick.
HearsStart ==
  /\ ~scl_pull /\ scl_sr[1] /\ scl_sr[2] /\ scl_d
  /\ (exact => ~scl_oe)
  /\ age < 3 => ~sda_pull
  /\ sda_sr[1] <=> age = 0
  /\ age = 1 => sda_sr[2]
  /\ age = 2 => ~sda_sr[2] /\ sda_d
  /\ age >= 3 => ~sda_sr[2] /\ ~sda_d

\* The bus between transactions: a STOP on its way, or nothing.
HearsFree ==
  /\ ~scl_oe /\ ~sda_oe /\ scl_sr[1] /\ scl_sr[2] /\ scl_d
  /\ age >= 1 => sda_sr[1]
  /\ age >= 2 => sda_sr[2]
  /\ age >= 3 => sda_d
  /\ sda_d => sda_sr[2] /\ state = "S_IDLE"
  /\ sda_sr[2] => sda_sr[1]

Hears ==
  /\ phase \in {"low", "set", "stop", "restart"} => HearsLow
  /\ phase \in {"high", "stopHigh", "restartHigh"} => HearsHigh
  /\ phase = "start" => HearsStart
  /\ phase = "free" => HearsFree

-----------------------------------------------------------------------------
(* And the counter: the stretch the slave is about to begin, or has begun  *)
(* in this tick, is not in it yet.                                         *)

Pending ==
  \/ scl_oe /\ ~str_d
  \/ state = "S_ACK" /\ m_scl /\ scl_d /\ active /\ do_stretch

Counted == hits = IF Pending THEN (stretch_count + 1) % COUNT_MOD ELSE stretch_count

IInv ==
  /\ Registers /\ MasterOK /\ HearsSCL /\ CountFrom
  /\ clean => Hears
  /\ clean /\ phase # "free" => Follows
  /\ clean /\ phase \notin {"free", "start"} => Knows
  /\ exact => Counted
-----------------------------------------------------------------------------
(* The constants, the arithmetic and the tuples                            *)

LEMMA Sizes ==
  /\ BITS \in Nat /\ BITS > 0 /\ HALF \in Nat /\ HALF > 3
  /\ LEN_MOD \in Nat /\ LEN_MOD > 0
  /\ INDEX_MOD \in Nat /\ INDEX_MOD > 1 /\ COUNT_MOD \in Nat /\ COUNT_MOD > 1
  /\ ADDR \in [1 .. BITS -> Bit]
<1>1. /\ BITS \in Nat \ {0} /\ ADDR \in [1 .. BITS -> Bit] /\ HALF \in Nat \ {0, 1, 2, 3}
      /\ INDEX_MOD \in Nat \ {0, 1} /\ LEN_MOD \in Nat \ {0} /\ COUNT_MOD \in Nat \ {0, 1}
  BY I2cOK DEF I2cOK
<1>2. QED
  BY <1>1

LEMMA SettingType ==
  ASSUME NEW c \in Settings
  PROVE  /\ c.enable \in BOOLEAN /\ c.sel \in BOOLEAN
         /\ c.target \in Nat /\ c.target < INDEX_MOD
         /\ c.len \in 0 .. LEN_MOD - 1
<1>1. Settings \subseteq [enable : BOOLEAN, target : 0 .. INDEX_MOD - 1, len : 0 .. LEN_MOD - 1,
                          sel : BOOLEAN]
  BY I2cOK DEF I2cOK
<1>2. c \in [enable : BOOLEAN, target : 0 .. INDEX_MOD - 1, len : 0 .. LEN_MOD - 1, sel : BOOLEAN]
  BY <1>1
<1>3. QED
  BY <1>2, Sizes

\* byte_index wraps at every INDEX_MOD bytes.
LEMMA ModFacts ==
  ASSUME NEW m \in Nat, m > 1, NEW n \in Nat
  PROVE  /\ n % m \in 0 .. m - 1
         /\ n < m => n % m = n
         /\ m % m = 0
         /\ ((n % m) + 1) % m = (n + 1) % m
<1> DEFINE q == n \div m
           q1 == (n + 1) \div m
           r == n % m
           r1 == (n + 1) % m
<1>1. r \in 0 .. m - 1 /\ r1 \in 0 .. m - 1 /\ q \in Int /\ q1 \in Int
  BY SMT
<1>2. n = m * q + r /\ n + 1 = m * q1 + r1
  BY SMT
<1>3. (\A x \in Nat : x < m => x % m = x) /\ m % m = 0
  BY SMT
<1>4. \A k \in Int : (k >= 2 => m * k >= 2 * m) /\ (k <= 0 - 1 => m * k <= 0 - m)
  BY SMT
<1>5. (q1 - q) \in Int /\ m * (q1 - q) = r + 1 - r1
  <2>1. m * q1 \in Int /\ m * q \in Int /\ m * (q1 - q) = m * q1 - m * q
    BY <1>1, SMT
  <2>2. QED
    BY <2>1, <1>1, <1>2
<1>6. q1 - q \in {0, 1}
  <2> HIDE DEF q, q1, r, r1
  <2>1. ~(q1 - q >= 2)
    BY <1>1, <1>4, <1>5
  <2>2. ~(q1 - q <= 0 - 1)
    BY <1>1, <1>4, <1>5
  <2>3. QED
    BY <1>5, <2>1, <2>2
<1>7. (r + 1) % m = r1
  <2> HIDE DEF q, q1, r, r1
  <2>1. CASE q1 - q = 0
    BY <2>1, <1>1, <1>3, <1>5
  <2>2. CASE q1 - q = 1
    <3>1. r + 1 - r1 = m
      BY <2>2, <1>1, <1>5
    <3>2. r + 1 = m /\ r1 = 0
      BY <3>1, <1>1
    <3>3. QED
      BY <3>2, <1>3
  <2>3. QED
    BY <1>6, <2>1, <2>2
<1>8. QED
  BY <1>1, <1>3, <1>7
-----------------------------------------------------------------------------
(* What holds whatever the bus shows: the registers first.                 *)

LEMMA InitInv == Init => IInv
<1> SUFFICES ASSUME Init
             PROVE  IInv
  OBVIOUS
<1> USE Sizes
<1>1. shift = [k \in 1 .. BITS |-> 0] /\ shift \in [1 .. BITS -> Bit]
  BY DEF Init, Zeros, Bit
<1>2. Registers
  <2>1. scl_sr \in BOOLEAN \X BOOLEAN /\ sda_sr \in BOOLEAN \X BOOLEAN
    BY DEF Init
  <2>2. QED
    BY <1>1, <2>1 DEF Init, Registers, TypeOK
<1>3. MasterOK
  BY DEF Init, MasterOK, Driven, Sent, Bit
<1>4. HearsSCL /\ CountFrom /\ HearsFree /\ Counted
  BY DEF Init, HearsSCL, CountFrom, HearsFree, Counted, Pending, do_stretch
<1>5. QED
  BY <1>2, <1>3, <1>4 DEF IInv, Hears, Init

\* The registers of one posedge of i2c_slave, whatever it hears.
LEMMA FsmTypes ==
  ASSUME Registers, Sync, Fsm
  PROVE  /\ state' \in {"S_IDLE", "S_RECV", "S_ACK", "S_STRETCH"}
         /\ bitc' \in 0 .. BITS /\ shift' \in [1 .. BITS -> Bit]
         /\ byte_index' \in 0 .. INDEX_MOD - 1
         /\ stretch_cnt' \in 0 .. LEN_MOD - 1
         /\ (scl_oe' <=> state' = "S_STRETCH") /\ (sda_oe' => state' = "S_ACK")
         /\ state' \in {"S_ACK", "S_STRETCH"} => bitc' = 0
         /\ state' = "S_RECV" /\ bitc' = BITS => scl_d'
         /\ state' = "S_ACK" => ~scl_oe
<1>1. /\ state \in {"S_IDLE", "S_RECV", "S_ACK", "S_STRETCH"}
      /\ bitc \in 0 .. BITS /\ shift \in [1 .. BITS -> Bit]
      /\ byte_index \in 0 .. INDEX_MOD - 1 /\ stretch_cnt \in 0 .. LEN_MOD - 1
      /\ (scl_oe <=> state = "S_STRETCH") /\ (sda_oe => state = "S_ACK")
      /\ state \in {"S_ACK", "S_STRETCH"} => bitc = 0
      /\ state = "S_RECV" /\ bitc = BITS => scl_d
  BY DEF Registers, TypeOK
<1>2. Zeros \in [1 .. BITS -> Bit] /\ ShiftIn \in [1 .. BITS -> Bit]
  BY <1>1, Sizes DEF Zeros, ShiftIn, Bit
<1>3. NextIndex \in 0 .. INDEX_MOD - 1
  <2>1. byte_index + 1 \in Nat
    BY <1>1, Sizes
  <2>2. QED
    BY <2>1, Sizes, ModFacts DEF NextIndex
<1>4. cfg.len \in 0 .. LEN_MOD - 1
  BY SettingType DEF Registers, TypeOK
<1>5. CASE Start
  BY <1>1, <1>2, <1>5, Sizes DEF Start
<1>6. CASE Stop
  BY <1>1, <1>6, Sizes DEF Stop
<1>7. CASE S_IDLE
  BY <1>1, <1>7, Sizes DEF S_IDLE
<1>8. CASE S_RECV
  <2>1. /\ state = "S_RECV" /\ scl_d' = scl
        /\ (shift' = ShiftIn \/ shift' = shift)
        /\ bitc' = IF scl_d /\ ~scl /\ bitc = BITS THEN 0
                   ELSE IF ~scl_d /\ scl THEN bitc + 1 ELSE bitc
        /\ state' = IF scl_d /\ ~scl /\ bitc = BITS THEN "S_ACK" ELSE "S_RECV"
        /\ (sda_oe' = sda_oe \/ state' = "S_ACK")
        /\ UNCHANGED <<scl_oe, byte_index, stretch_cnt>>
    BY <1>1, <1>8 DEF S_RECV, ByteComplete, scl_rise, scl_fall, Sync, Match
  <2>2. QED
    BY <1>1, <1>2, <2>1, Sizes
<1>9. CASE S_ACK
  BY <1>1, <1>3, <1>4, <1>9, Sizes DEF S_ACK
<1>10. CASE S_STRETCH
  <2>1. CASE stretch_cnt # 0
    BY <1>1, <1>10, <2>1, Sizes DEF S_STRETCH
  <2>2. CASE stretch_cnt = 0
    BY <1>1, <1>10, <2>2, Sizes DEF S_STRETCH
  <2>3. QED
    BY <2>1, <2>2
<1>11. QED
  BY <1>5, <1>6, <1>7, <1>8, <1>9, <1>10 DEF Fsm

LEMMA SyncTypes ==
  ASSUME Registers, Sync
  PROVE  /\ scl_sr' \in BOOLEAN \X BOOLEAN /\ sda_sr' \in BOOLEAN \X BOOLEAN
         /\ (scl_sr'[1] <=> SCL) /\ (scl_sr'[2] <=> scl_sr[1]) /\ (scl_d' <=> scl_sr[2])
         /\ (sda_sr'[1] <=> SDA) /\ (sda_sr'[2] <=> sda_sr[1]) /\ (sda_d' <=> sda_sr[2])
BY DEF Registers, TypeOK, Sync, SCL, SDA, scl, sda

LEMMA AgeType ==
  ASSUME Registers, age' = IF Stretched THEN 0 ELSE IF age < HALF THEN age + 1 ELSE HALF
  PROVE  age' \in 0 .. HALF
BY Sizes DEF Registers, TypeOK

LEMMA TickRegisters ==
  ASSUME IInv, NEW clr \in BOOLEAN, Tick(clr)
  PROVE  Registers'
<1> USE DEF IInv
<1>1. Registers /\ Sync /\ Fsm /\ Count(clr)
  BY DEF Tick
<1>2. stretch_count' \in 0 .. COUNT_MOD - 1 /\ hits' \in 0 .. COUNT_MOD - 1
  BY <1>1, Sizes, ModFacts DEF Tick, Count, Registers, TypeOK
<1>3. str_d' => scl_oe
  BY <1>1 DEF Count
<1>4. age' \in 0 .. HALF /\ cfg' = cfg /\ mbit' = mbit
  BY <1>1, AgeType DEF Tick
<1>5. QED
  BY <1>1, <1>2, <1>3, <1>4, Sizes, FsmTypes, SyncTypes DEF Registers, TypeOK

LEMMA ResetRegisters ==
  ASSUME IInv, Reset
  PROVE  Registers'
<1>1. Registers /\ Sync /\ Zeros \in [1 .. BITS -> Bit]
  BY DEF IInv, Reset, Zeros, Bit
<1>2. age' \in 0 .. HALF
  BY <1>1, AgeType DEF Reset
<1>3. QED
  BY <1>1, <1>2, Sizes, SyncTypes DEF Reset, Registers, TypeOK

LEMMA StepRegisters ==
  ASSUME Registers, Step, mbit' \in 0 .. BITS + 1, hits' \in 0 .. COUNT_MOD - 1
  PROVE  Registers'
BY Sizes DEF Step, slaveVars, countVars, Registers, TypeOK

LEMMA ConfigureRegisters ==
  ASSUME Registers, NEW c \in Settings, Configure(c)
  PROVE  Registers'
BY DEF Configure, slaveVars, countVars, masterVars, Registers, TypeOK

-----------------------------------------------------------------------------
(* The master's bookkeeping, SCL and the counter's beginning.              *)

LEMMA MasterStart ==
  ASSUME IInv, MStart \/ MStartLow
  PROVE  Registers' /\ MasterOK'
<1> USE Sizes DEF IInv, MasterOK, Driven, Sent
<1>1. Registers'
  BY StepRegisters DEF MStart, MStartLow, Registers, TypeOK
<1>2. CASE MStart
  BY <1>1, <1>2 DEF MStart, Bit
<1>3. CASE MStartLow
  BY <1>1, <1>3 DEF MStartLow
<1>4. QED
  BY <1>1, <1>2, <1>3

LEMMA MasterSetBit ==
  ASSUME IInv, NEW b \in Bit, MSetBit(b)
  PROVE  Registers' /\ MasterOK'
<1>1. /\ phase = "low" /\ mbit \in 0 .. BITS + 1 /\ mbyte \in Nat
      /\ m_scl /\ cur \in Seq(Bit) /\ (mbit < BITS => Len(cur) = mbit)
  BY Sizes DEF IInv, MSetBit, Registers, TypeOK, MasterOK, Driven, Sent
<1>2. /\ phase' = "set" /\ m_scl' /\ (m_sda' <=> b = 0) /\ hits' = hits /\ Step
      /\ \/ mbit < BITS /\ cur' = Append(cur, b) /\ mbit' = mbit /\ mbyte' = mbyte
         \/ cur' = <<b>> /\ mbit' = 0 /\ mbyte' = mbyte + 1
  BY <1>1 DEF MSetBit
<1>3. /\ mbit' \in Nat /\ mbit' < BITS /\ mbyte' \in Nat
      /\ cur' \in Seq(Bit) /\ Len(cur') = mbit' + 1 /\ cur'[mbit' + 1] = b
  <2>1. CASE mbit < BITS /\ cur' = Append(cur, b) /\ mbit' = mbit /\ mbyte' = mbyte
    BY <1>1, <2>1, Sizes
  <2>2. CASE cur' = <<b>> /\ mbit' = 0 /\ mbyte' = mbyte + 1
    BY <1>1, <2>2, Sizes
  <2>3. QED
    BY <1>2, <2>1, <2>2
<1>4. Registers'
  BY <1>2, <1>3, Sizes, StepRegisters DEF IInv, Registers
<1>5. Driven' /\ Sent' = mbit' + 1
  <2>1. Driven'
    BY <1>2 DEF Driven
  <2>2. ~(mbit' >= BITS)
    BY <1>3, Sizes
  <2>3. QED
    BY <2>1, <2>2 DEF Sent
<1>6. MasterOK'
  BY <1>2, <1>3, <1>5, Sizes DEF MasterOK
<1>7. QED
  BY <1>4, <1>6

LEMMA MasterSlot ==
  ASSUME IInv, MSetAck \/ MRelease \/ MLow
  PROVE  Registers' /\ MasterOK'
<1> USE Sizes DEF IInv, MasterOK, Driven, Sent
<1>1. mbit \in 0 .. BITS + 1 /\ hits \in 0 .. COUNT_MOD - 1
  BY DEF Registers, TypeOK
<1>2. CASE MSetAck
  BY <1>1, <1>2, StepRegisters DEF MSetAck
<1>3. CASE MRelease
  BY <1>1, <1>3, StepRegisters DEF MRelease
<1>4. CASE MLow
  <2>1. hits' \in 0 .. COUNT_MOD - 1
    BY <1>1, <1>4, ModFacts DEF MLow
  <2>2. mbit <= BITS /\ phase = "high" /\ mbit' = mbit + 1
    BY <1>4 DEF MLow
  <2>3. Registers'
    BY <1>1, <1>4, <2>1, <2>2, StepRegisters DEF MLow
  <2>4. MasterOK'
    BY <1>1, <1>4, <2>2 DEF MLow
  <2>5. QED
    BY <2>3, <2>4
<1>5. QED
  BY <1>2, <1>3, <1>4

LEMMA MasterEnd ==
  ASSUME IInv, (\E p \in {"stop", "restart"} : MEnd(p)) \/ MStop \/ MRestart
  PROVE  Registers' /\ MasterOK'
<1> USE Sizes DEF IInv, MasterOK, Driven, Sent
<1>1. mbit \in 0 .. BITS + 1 /\ hits \in 0 .. COUNT_MOD - 1
  BY DEF Registers, TypeOK
<1>2. CASE \E p \in {"stop", "restart"} : MEnd(p)
  <2>1. PICK p \in {"stop", "restart"} : MEnd(p)
    BY <1>2
  <2>2. Registers'
    BY <1>1, <2>1, StepRegisters DEF MEnd
  <2>3. MasterOK'
    BY <1>1, <2>1 DEF MEnd
  <2>4. QED
    BY <2>2, <2>3
<1>3. CASE MStop
  BY <1>1, <1>3, StepRegisters DEF MStop
<1>4. CASE MRestart
  <2>1. mbit' \in 0 .. BITS + 1
    BY <1>1, <1>4 DEF MRestart
  <2>2. Registers'
    BY <1>1, <1>4, <2>1, StepRegisters DEF MRestart
  <2>3. MasterOK'
    <3>1. CASE SDA
      BY <1>1, <1>4, <3>1 DEF MRestart, Bit
    <3>2. CASE ~SDA
      BY <1>1, <1>4, <3>2 DEF MRestart
    <3>3. QED
      BY <3>1, <3>2
  <2>4. QED
    BY <2>2, <2>3
<1>5. QED
  BY <1>2, <1>3, <1>4

LEMMA MasterKept ==
  ASSUME MasterOK, UNCHANGED <<phase, m_scl, m_sda, mbit, mbyte, cur>>
  PROVE  MasterOK'
BY DEF MasterOK, Driven, Sent

\* A tick later a sample is one place further.
LEMMA HearsOn ==
  ASSUME Registers, HearsSCL, Sync, UNCHANGED <<m_scl, phase>>,
         age' = IF Stretched THEN 0 ELSE IF age < HALF THEN age + 1 ELSE HALF
  PROVE  HearsSCL'
<1>1. (scl_sr'[1] <=> SCL) /\ (scl_sr'[2] <=> scl_sr[1]) /\ (scl_d' <=> scl_sr[2])
  BY SyncTypes
<1>2. age \in 0 .. HALF
  BY DEF Registers, TypeOK
<1>3. age' >= 1 => (SCL <=> ~m_scl)
  BY DEF Stretched, SCL
<1>4. (age' >= 2 => age >= 1) /\ (age' >= 3 => age >= 2)
  BY <1>2, Sizes
<1>5. QED
  BY <1>1, <1>3, <1>4 DEF HearsSCL

LEMMA StepHears ==
  ASSUME Step
  PROVE  HearsSCL'
BY DEF Step, HearsSCL

\* A stretch begins at a falling edge only.
LEMMA NoFallNoStretch ==
  ASSUME Registers, Fsm, ~scl_fall, ~scl_oe
  PROVE  ~scl_oe'
BY DEF Registers, TypeOK, Fsm, Start, Stop, S_IDLE, S_RECV, S_ACK, S_STRETCH

\* While the bus is free every sample of SCL is high, and stays so.
LEMMA BusFreeSamples ==
  ASSUME Registers, MasterOK, HearsSCL, BusFree
  PROVE  /\ ~m_scl /\ ~Stretched /\ SCL
         /\ scl_sr[1] /\ scl_sr[2] /\ scl_d /\ ~scl_fall
<1>1. ~m_scl /\ age = HALF /\ ~scl_oe
  BY DEF BusFree, MasterOK
<1>2. QED
  BY <1>1, Sizes DEF HearsSCL, Stretched, SCL, scl_pull, scl_fall, scl

LEMMA BusFreeOn ==
  ASSUME Registers, MasterOK, HearsSCL, BusFree, UNCHANGED phase,
         age' = IF Stretched THEN 0 ELSE IF age < HALF THEN age + 1 ELSE HALF,
         Fsm \/ ~scl_oe'
  PROVE  BusFree'
<1>1. ~Stretched /\ ~scl_fall
  BY BusFreeSamples
<1>2. ~scl_oe'
  BY <1>1, NoFallNoStretch DEF BusFree
<1>3. QED
  BY <1>1, <1>2, Sizes DEF BusFree

\* The four parts, for the steps that are not the master's.
LEMMA ClockUnconditional ==
  ASSUME IInv,
         \/ \E clr \in BOOLEAN : Tick(clr)
         \/ Reset
         \/ \E c \in Settings : Configure(c)
  PROVE  Registers' /\ MasterOK' /\ HearsSCL' /\ CountFrom'
<1>1. Registers /\ MasterOK /\ HearsSCL /\ CountFrom
  BY DEF IInv
<1>2. ASSUME NEW clr \in BOOLEAN, Tick(clr)
      PROVE  Registers' /\ MasterOK' /\ HearsSCL' /\ CountFrom'
  <2>1. Registers'
    BY <1>2, TickRegisters
  <2>2. MasterOK' /\ HearsSCL'
    BY <1>1, <1>2, MasterKept, HearsOn DEF Tick
  <2>3. exact' => BusFree \/ exact
    BY <1>2 DEF Tick
  <2>4. exact => clean \/ BusFree
    BY <1>1 DEF CountFrom
  <2>5. BusFree => BusFree'
    BY <1>1, <1>2, BusFreeOn DEF Tick
  <2>6. CountFrom'
    BY <1>2, <2>3, <2>4, <2>5 DEF Tick, CountFrom
  <2>7. QED
    BY <2>1, <2>2, <2>6
<1>3. CASE Reset
  <2>1. Registers'
    BY <1>3, ResetRegisters
  <2>2. MasterOK' /\ HearsSCL'
    BY <1>1, <1>3, MasterKept, HearsOn DEF Reset
  <2>3. BusFree => BusFree'
    BY <1>1, <1>3, BusFreeOn DEF Reset
  <2>4. CountFrom'
    BY <1>3, <2>3 DEF Reset, CountFrom
  <2>5. QED
    BY <2>1, <2>2, <2>4
<1>4. ASSUME NEW c \in Settings, Configure(c)
      PROVE  Registers' /\ MasterOK' /\ HearsSCL' /\ CountFrom'
  <2>1. UNCHANGED <<slaveVars, countVars, masterVars>>
    BY <1>4 DEF Configure
  <2>2. Registers' /\ MasterOK'
    BY <1>1, <1>4, <2>1, ConfigureRegisters, MasterKept DEF masterVars
  <2>3. HearsSCL'
    BY <1>1, <2>1 DEF HearsSCL, slaveVars, masterVars
  <2>4. CountFrom'
    BY <1>1, <1>4 DEF Configure, CountFrom, BusFree, slaveVars, masterVars
  <2>5. QED
    BY <2>2, <2>3, <2>4
<1>5. QED
  BY <1>2, <1>3, <1>4

LEMMA MasterUnconditional ==
  ASSUME IInv, Master
  PROVE  Registers' /\ MasterOK' /\ HearsSCL' /\ CountFrom'
<1>1. Registers' /\ MasterOK'
  BY MasterStart, MasterSetBit, MasterSlot, MasterEnd DEF Master
<1>2. Step
  BY DEF Master, MStart, MStartLow, MSetBit, MSetAck, MRelease, MLow, MEnd, MStop, MRestart
<1>3. HearsSCL'
  BY <1>2, StepHears
<1>4. ASSUME MStart \/ MRestart
      PROVE  CountFrom'
  <2>1. CASE FromHere
    BY <2>1 DEF FromHere, CountFrom
  <2>2. CASE phase = "restartHigh" /\ exact' = exact /\ clean' = clean
    BY <2>2 DEF IInv, CountFrom, BusFree
  <2>3. QED
    BY <1>4, <2>1, <2>2 DEF MStart, MRestart
<1>5. ASSUME ~(MStart \/ MRestart)
      PROVE  CountFrom'
  <2>1. phase # "free" /\ exact' = exact /\ clean' = clean
    BY <1>5 DEF Master, MStartLow, MSetBit, MSetAck, MRelease, MLow, MEnd, MStop
  <2>2. QED
    BY <2>1 DEF IInv, CountFrom, BusFree
<1>6. CountFrom'
  BY <1>4, <1>5 DEF IInv, CountFrom
<1>7. QED
  BY <1>1, <1>3, <1>6

-----------------------------------------------------------------------------
(* The master's steps, once a START has shown: it moves a line, and what   *)
(* the slave has heard and where it is stay what they are.                 *)

LEMMA Kept ==
  ASSUME Step
  PROVE  /\ UNCHANGED <<scl_sr, sda_sr, scl_d, sda_d, state, bitc, shift, active, scl_oe, sda_oe>>
         /\ UNCHANGED <<byte_index, stretch_cnt, cfg, stretch_count, str_d>>
         /\ age' = 0
BY DEF Step, slaveVars, countVars

LEMMA LowParts ==
  ASSUME Low, mbit \in 0 .. BITS + 1
  PROVE  /\ mbit < BITS => Receives(mbit)
         /\ mbit = BITS => IF scl_d THEN Receives(BITS) ELSE AcksThis
         /\ mbit = BITS + 1 => IF scl_d THEN Acks(mbyte) ELSE Acked(mbyte)
<1>1. CASE mbit < BITS /\ Receives(mbit)
  BY <1>1, Sizes
<1>2. CASE mbit = BITS /\ (IF scl_d THEN Receives(BITS) ELSE AcksThis)
  BY <1>2, Sizes
<1>3. CASE mbit = BITS + 1 /\ (IF scl_d THEN Acks(mbyte) ELSE Acked(mbyte))
  BY <1>3, Sizes
<1>4. QED
  BY <1>1, <1>2, <1>3 DEF Low

\* The three samples of SCL, half a period after the master last moved it.
LEMMA Settled ==
  ASSUME IInv, age = HALF
  PROVE  (scl_sr[1] <=> ~m_scl) /\ (scl_sr[2] <=> ~m_scl) /\ (scl_d <=> ~m_scl)
BY Sizes DEF IInv, HearsSCL

\* MStart and MRestart: a START, if it shows.
LEMMA CleanStart ==
  ASSUME IInv, Step, phase \in {"free", "restartHigh"}, age = HALF,
         SDA, FromHere, phase' = "start", m_sda', UNCHANGED m_scl
  PROVE  clean' => Hears'
<1> SUFFICES ASSUME clean'
             PROVE  HearsStart'
  BY DEF Hears
<1>1. SCL /\ sda_sr[1] /\ (exact' => exact)
  BY DEF FromHere, StartShows
<1>2. ~m_scl
  BY DEF IInv, MasterOK
<1>3. ~scl_pull /\ ~sda_pull /\ scl_sr[1] /\ scl_sr[2] /\ scl_d
  BY <1>1, <1>2, Settled DEF SCL, SDA
<1>4. exact => ~scl_oe
  <2>1. CASE clean
    BY <2>1, Sizes DEF IInv, Hears, HearsFree, HearsHigh
  <2>2. CASE ~clean
    BY <2>2 DEF IInv, CountFrom, BusFree
  <2>3. QED
    BY <2>1, <2>2
<1>5. QED
  BY <1>1, <1>3, <1>4, Kept DEF HearsStart, scl_pull, sda_pull

\* Nothing the counter looks at moves.
LEMMA CountKept ==
  ASSUME IInv, Step, UNCHANGED <<m_scl, hits>>, exact' => exact
  PROVE  exact' => Counted'
<1>1. exact' => Counted
  BY DEF IInv
<1>2. Pending' <=> Pending
  BY Kept DEF Pending, do_stretch
<1>3. QED
  BY <1>1, <1>2, Kept DEF Counted

LEMMA CleanMStart ==
  ASSUME IInv, MStart
  PROVE  IInv'
<1>1. Step /\ phase = "free" /\ age = HALF /\ SDA /\ FromHere /\ phase' = "start" /\ m_sda'
      /\ UNCHANGED <<m_scl, hits>>
  BY DEF MStart
<1>2. clean' => Hears'
  BY <1>1, CleanStart
<1>3. Follows'
  BY <1>1, Kept DEF Follows
<1>4. exact' => Counted'
  BY <1>1, CountKept DEF FromHere
<1>5. QED
  BY <1>1, <1>2, <1>3, <1>4, MasterUnconditional DEF IInv, Master

LEMMA CleanMStartLow ==
  ASSUME IInv, MStartLow
  PROVE  IInv'
<1>1. /\ Step /\ phase = "start" /\ age = HALF /\ phase' = "low" /\ m_scl'
      /\ UNCHANGED <<m_sda, mbit, mbyte, cur, acked, own, clean, exact, hits>>
  BY DEF MStartLow
<1>2. mbit = 0 /\ mbyte = 0 /\ ~m_scl
  BY <1>1 DEF IInv, MasterOK
<1>3. clean => Receives(0) /\ HearsStart
  BY <1>1, Sizes DEF IInv, Hears, Follows
<1>4. clean' => Hears'
  BY <1>1, <1>2, <1>3, Settled, Kept, Sizes DEF Hears, HearsLow, HearsStart
<1>5. clean' => Follows' /\ Knows'
  <2> SUFFICES ASSUME clean'
               PROVE  Follows' /\ Knows'
    OBVIOUS
  <2>1. Receives(0)'
    BY <1>1, <1>3, Kept DEF Receives
  <2>2. mbit' = 0 /\ mbyte' = 0
    BY <1>1, <1>2
  <2>3. Low'
    BY <2>1, <2>2, Sizes DEF Low
  <2>4. QED
    BY <1>1, <2>2, <2>3, Sizes DEF Follows, Knows, Driven
<1>6. exact' => Counted'
  <2> SUFFICES ASSUME exact'
               PROVE  Counted'
    OBVIOUS
  <2>1. clean /\ Counted
    BY <1>1 DEF IInv, CountFrom, BusFree
  <2>2. state # "S_ACK"
    BY <1>3, <2>1 DEF Receives
  <2>3. QED
    BY <1>1, <2>1, <2>2, Kept DEF Counted, Pending
<1>7. QED
  BY <1>1, <1>4, <1>5, <1>6, MasterUnconditional DEF IInv, Master

LEMMA CleanMSetBit ==
  ASSUME IInv, NEW b \in Bit, MSetBit(b)
  PROVE  IInv'
<1>1. /\ Step /\ phase = "low" /\ phase' = "set"
      /\ UNCHANGED <<m_scl, acked, own, clean, exact, hits>>
      /\ \/ mbit < BITS /\ cur' = Append(cur, b) /\ mbit' = mbit /\ mbyte' = mbyte
         \/ mbit = BITS + 1 /\ acked /\ mbit' = 0 /\ mbyte' = mbyte + 1
  BY DEF MSetBit
<1>2. /\ mbit \in 0 .. BITS + 1 /\ mbyte \in Nat /\ cur \in Seq(Bit)
      /\ (mbit < BITS => Len(cur) = mbit) /\ (mbit = 0 => mbyte = 0)
  BY <1>1, Sizes DEF IInv, Registers, TypeOK, MasterOK, Driven, Sent
<1>3. clean' => Hears'
  BY <1>1, Kept DEF IInv, Hears, HearsLow
<1>4. clean' => Follows' /\ Knows'
  <2> SUFFICES ASSUME clean'
               PROVE  Follows' /\ Knows'
    OBVIOUS
  <2>1. Low /\ Knows
    BY <1>1 DEF IInv, Follows
  <2>2. CASE mbit < BITS /\ cur' = Append(cur, b) /\ mbit' = mbit /\ mbyte' = mbyte
    <3>1. Receives(mbit)
      BY <1>2, <2>1, <2>2, Sizes DEF Low
    <3>2. \A k \in 1 .. mbit : cur'[k] = cur[k]
      BY <1>2, <2>2
    <3>3. Receives(mbit)'
      <4>1. \A k \in 1 .. mbit : shift'[BITS - mbit + k] = cur'[k]
        BY <1>1, <3>1, <3>2, Kept DEF Receives
      <4>2. QED
        BY <1>1, <2>2, <3>1, <4>1, Kept DEF Receives
    <3>4. ~NextByte'
      BY <1>2, <2>2 DEF NextByte
    <3>5. Set'
      BY <2>2, <3>3, <3>4 DEF Set, Low
    <3>6. Knows'
      BY <1>1, <1>2, <2>1, <2>2, Sizes, Kept DEF Knows
    <3>7. QED
      BY <1>1, <3>5, <3>6 DEF Follows
  <2>3. CASE mbit = BITS + 1 /\ acked /\ mbit' = 0 /\ mbyte' = mbyte + 1
    <3>1. cfg.sel /\ active /\ own
      BY <2>1, <2>3 DEF Knows
    <3>2. IF scl_d THEN Acks(mbyte) ELSE Acked(mbyte)
      BY <1>2, <2>1, <2>3, Sizes DEF Low
    <3>3. NextByte' /\ mbyte' - 1 = mbyte
      BY <1>2, <2>3 DEF NextByte
    <3>4. Set'
      <4>1. CASE scl_d
        BY <1>1, <3>1, <3>2, <3>3, <4>1, Kept DEF Set, Acks
      <4>2. CASE ~scl_d
        BY <1>1, <3>1, <3>2, <3>3, <4>2, Kept DEF Set, Acked
      <4>3. QED
        BY <4>1, <4>2
    <3>5. Knows'
      BY <1>1, <1>2, <2>3, <3>1, Sizes, Kept DEF Knows
    <3>6. QED
      BY <1>1, <3>4, <3>5 DEF Follows
  <2>4. QED
    BY <1>1, <2>2, <2>3
<1>5. exact' => Counted'
  BY <1>1, CountKept
<1>6. QED
  BY <1>3, <1>4, <1>5, MasterUnconditional DEF IInv, Master

LEMMA CleanMSetAck ==
  ASSUME IInv, MSetAck
  PROVE  IInv'
<1>1. /\ Step /\ phase = "low" /\ mbit = BITS /\ phase' = "set"
      /\ UNCHANGED <<m_scl, mbit, mbyte, cur, acked, clean, exact, hits>>
      /\ own' = IF mbyte = 0 THEN cur = ADDR ELSE own
  BY DEF MSetAck
<1>2. mbyte \in Nat
  BY DEF IInv, MasterOK
<1>3. clean' => Hears'
  BY <1>1, Kept DEF IInv, Hears, HearsLow
<1>4. clean' => Follows' /\ Knows'
  <2> SUFFICES ASSUME clean'
               PROVE  Follows' /\ Knows'
    OBVIOUS
  <2>1. Low /\ Knows
    BY <1>1 DEF IInv, Follows
  <2>2. IF scl_d THEN Receives(BITS) ELSE AcksThis
    BY <1>1, <2>1, Sizes DEF Low
  <2>3. IF scl_d' THEN Receives(BITS)' ELSE AcksThis'
    BY <1>1, <2>2, Kept DEF Receives, AcksThis, Acks
  <2>4. ~NextByte'
    BY <1>1, Sizes DEF NextByte
  <2>5. Set'
    BY <1>1, <2>3, <2>4 DEF Set, Low
  <2>6. Knows'
    <3>1. mbyte > 0 => own /\ acked /\ cfg.sel
      BY <1>1, <2>1, Sizes DEF Knows
    <3>2. mbit' = BITS /\ mbyte' = mbyte /\ acked' = acked /\ cfg' = cfg /\ cur' = cur
      BY <1>1, Kept
    <3>3. mbyte = 0 => (own' <=> cur = ADDR)
      BY <1>1
    <3>4. mbyte > 0 => own'
      BY <1>1, <1>2, <3>1
    <3>5. mbit' # BITS + 1
      BY <3>2, Sizes
    <3>6. QED
      BY <3>1, <3>2, <3>3, <3>4, <3>5 DEF Knows
  <2>7. QED
    BY <1>1, <2>5, <2>6 DEF Follows
<1>5. exact' => Counted'
  BY <1>1, CountKept
<1>6. QED
  BY <1>3, <1>4, <1>5, MasterUnconditional DEF IInv, Master

\* SCL is let go: its falling edge was heard long ago.
LEMMA CleanMRelease ==
  ASSUME IInv, MRelease
  PROVE  IInv'
<1>1. /\ Step /\ age = HALF /\ phase \in {"set", "stop", "restart"}
      /\ phase' = CASE phase = "set" -> "high" [] phase = "stop" -> "stopHigh"
                    [] phase = "restart" -> "restartHigh"
      /\ m_scl' = FALSE
      /\ UNCHANGED <<m_sda, mbit, mbyte, cur, acked, own, clean, exact, hits>>
  BY DEF MRelease
<1>2. /\ mbit \in 0 .. BITS + 1 /\ mbyte \in Nat /\ m_scl
      /\ (phase = "set" => mbit <= BITS) /\ (phase # "set" => mbit # BITS)
      /\ (scl_oe <=> state = "S_STRETCH")
  BY <1>1 DEF IInv, Registers, TypeOK, MasterOK, Driven
<1>3. ~scl_sr[1] /\ ~scl_sr[2] /\ ~scl_d
  BY <1>1, <1>2, Settled
<1>4. clean' => Hears'
  <2> SUFFICES ASSUME clean'
               PROVE  Hears'
    OBVIOUS
  <2>1. sda_sr[1] <=> SDA
    BY <1>1, Sizes DEF IInv, Hears, HearsLow
  <2>2. SDA' <=> SDA
    BY <1>1, Kept DEF SDA, sda_pull
  <2>3. HearsHigh'
    BY <1>3, <2>1, <2>2, <1>1, Kept DEF HearsHigh
  <2>4. QED
    BY <1>1, <2>3 DEF Hears
<1>5. clean' => Follows' /\ Knows'
  <2> SUFFICES ASSUME clean'
               PROVE  Follows' /\ Knows'
    OBVIOUS
  <2>1. Knows'
    BY <1>1, Kept DEF IInv, Knows, Driven
  <2>2. CASE phase = "set"
    <3>1. Set
      BY <1>1, <2>2 DEF IInv, Follows
    <3>2. NextByte' <=> NextByte
      BY <1>1 DEF NextByte
    <3>3. CASE NextByte
      <4>1. active /\ Acked(mbyte - 1)
        BY <1>3, <3>1, <3>3 DEF Set
      <4>2. active' /\ Acked(mbyte - 1)'
        BY <1>1, <4>1, Kept DEF Acked
      <4>3. QED
        BY <1>1, <1>3, <2>1, <2>2, <3>2, <3>3, <4>2, Kept DEF Follows, High
    <3>4. CASE ~NextByte
      <4>1. Low
        BY <3>1, <3>4 DEF Set
      <4>2. (mbit < BITS /\ Receives(mbit)) \/ (mbit = BITS /\ AcksThis)
        <5>1. mbit < BITS \/ mbit = BITS
          BY <1>2, <2>2, Sizes
        <5>2. CASE mbit < BITS
          BY <1>2, <4>1, <5>2, LowParts
        <5>3. CASE mbit = BITS
          BY <1>2, <1>3, <4>1, <5>3, LowParts
        <5>4. QED
          BY <5>1, <5>2, <5>3
      <4>3. (mbit' < BITS /\ Receives(mbit)') \/ (mbit' = BITS /\ AcksThis')
        BY <1>1, <4>2, Kept DEF Receives, AcksThis, Acks
      <4>4. High'
        BY <1>1, <1>3, <3>2, <3>4, <4>3, Kept DEF High
      <4>5. QED
        BY <1>1, <2>1, <2>2, <4>4 DEF Follows
    <3>5. QED
      BY <3>3, <3>4
  <2>3. CASE phase # "set"
    <3>1. Low
      BY <1>1, <2>3 DEF IInv, Follows
    <3>2. (mbit < BITS /\ Receives(mbit)) \/ (mbit = BITS + 1 /\ Acked(mbyte))
      <4>1. mbit < BITS \/ mbit = BITS + 1
        BY <1>1, <1>2, <2>3, Sizes
      <4>2. CASE mbit < BITS
        BY <1>2, <3>1, <4>2, LowParts
      <4>3. CASE mbit = BITS + 1
        BY <1>2, <1>3, <3>1, <4>3, LowParts
      <4>4. QED
        BY <4>1, <4>2, <4>3
    <3>3. Leaving
      BY <1>2, <3>2 DEF Receives, Acked, Leaving
    <3>4. Leaving'
      BY <1>1, <3>3, Kept DEF Leaving
    <3>5. QED
      BY <1>1, <2>1, <2>3, <3>4 DEF Follows
  <2>4. QED
    BY <2>2, <2>3
<1>6. exact' => Counted'
  <2>1. Pending' <=> Pending
    BY <1>1, <1>3, Kept DEF Pending
  <2>2. QED
    BY <1>1, <2>1, Kept DEF IInv, Counted
<1>7. QED
  BY <1>1, <1>4, <1>5, <1>6, MasterUnconditional DEF IInv, Master

LEMMA CleanMEnd ==
  ASSUME IInv, NEW p \in {"stop", "restart"}, MEnd(p)
  PROVE  IInv'
<1>1. /\ Step /\ phase = "low" /\ phase' = p /\ mbit # BITS
      /\ UNCHANGED <<m_scl, mbit, mbyte, cur, acked, own, clean, exact, hits>>
  BY DEF MEnd
<1>2. mbit \in 0 .. BITS + 1
  BY DEF IInv, Registers, TypeOK
<1>3. clean' => Hears'
  BY <1>1, Kept DEF IInv, Hears, HearsLow
<1>4. clean' => Follows' /\ Knows'
  <2> SUFFICES ASSUME clean'
               PROVE  Follows' /\ Knows'
    OBVIOUS
  <2>1. Low /\ Knows
    BY <1>1 DEF IInv, Follows
  <2>2. Low'
    <3>1. CASE mbit < BITS
      <4>1. Receives(mbit)
        BY <1>2, <2>1, <3>1, Sizes DEF Low
      <4>2. Receives(mbit)'
        BY <1>1, <4>1, Kept DEF Receives
      <4>3. QED
        BY <1>1, <3>1, <4>2 DEF Low
    <3>2. CASE mbit = BITS + 1
      <4>1. IF scl_d THEN Acks(mbyte) ELSE Acked(mbyte)
        BY <2>1, <3>2, Sizes DEF Low
      <4>2. IF scl_d' THEN Acks(mbyte)' ELSE Acked(mbyte)'
        BY <1>1, <4>1, Kept DEF Acks, Acked
      <4>3. QED
        BY <1>1, <3>2, <4>2 DEF Low
    <3>3. QED
      BY <1>1, <1>2, <3>1, <3>2, Sizes
  <2>3. Knows'
    BY <1>1, <2>1, Kept DEF Knows, Driven
  <2>4. QED
    BY <1>1, <2>2, <2>3 DEF Follows
<1>5. exact' => Counted'
  BY <1>1, CountKept
<1>6. QED
  BY <1>3, <1>4, <1>5, MasterUnconditional DEF IInv, Master

\* A STOP: SDA was low, and the slave has let go of both lines.
LEMMA CleanMStop ==
  ASSUME IInv, MStop
  PROVE  IInv'
<1>1. /\ Step /\ phase = "stopHigh" /\ age = HALF /\ phase' = "free" /\ ~m_sda'
      /\ UNCHANGED <<m_scl, mbit, mbyte, cur, acked, own, clean, exact, hits>>
  BY DEF MStop
<1>2. ~m_scl /\ m_sda /\ (sda_oe => state = "S_ACK")
  BY <1>1 DEF IInv, Registers, TypeOK, MasterOK
<1>3. clean' => Hears'
  <2> SUFFICES ASSUME clean'
               PROVE  Hears'
    OBVIOUS
  <2>1. HearsHigh /\ Leaving
    BY <1>1 DEF IInv, Hears, Follows
  <2>2. ~sda_d /\ ~sda_sr[2] /\ ~scl_oe /\ ~sda_oe
    BY <1>1, <1>2, <2>1, Sizes DEF HearsHigh, Leaving, SDA
  <2>3. HearsFree'
    BY <1>1, <1>2, <2>2, Settled, Kept DEF HearsFree
  <2>4. QED
    BY <1>1, <2>3 DEF Hears
<1>4. Follows'
  BY <1>1 DEF Follows
<1>5. exact' => Counted'
  BY <1>1, CountKept
<1>6. QED
  BY <1>1, <1>3, <1>4, <1>5, MasterUnconditional DEF IInv, Master

LEMMA CleanMRestart ==
  ASSUME IInv, MRestart
  PROVE  IInv'
<1>1. Step /\ phase = "restartHigh" /\ age = HALF /\ UNCHANGED <<m_scl, hits>>
  BY DEF MRestart
<1>2. CASE SDA
  <2>1. FromHere /\ phase' = "start" /\ m_sda'
    BY <1>2 DEF MRestart
  <2>2. clean' => Hears'
    BY <1>1, <1>2, <2>1, CleanStart
  <2>3. Follows'
    BY <1>1, <2>1, Sizes, Kept DEF Follows
  <2>4. exact' => Counted'
    BY <1>1, <2>1, CountKept DEF FromHere
  <2>5. QED
    BY <2>1, <2>2, <2>3, <2>4, MasterUnconditional DEF IInv, Master
<1>3. CASE ~SDA
  <2>1. phase' = "free" /\ UNCHANGED <<clean, exact>>
    BY <1>3 DEF MRestart
  <2>2. ~clean
    BY <1>1, <1>3 DEF IInv, Registers, TypeOK, MasterOK, Follows, Leaving, SDA, sda_pull
  <2>3. exact' => Counted'
    BY <1>1, <2>1, CountKept
  <2>4. QED
    BY <2>1, <2>2, <2>3, MasterUnconditional DEF IInv, Master
<1>4. QED
  BY <1>2, <1>3

LEMMA HighParts ==
  ASSUME High, scl_d, mbit \in 0 .. BITS + 1
  PROVE  (mbit < BITS => Receives(mbit + 1)) /\ (mbit = BITS => AcksThis)
BY Sizes DEF High

LEMMA CleanMLow ==
  ASSUME IInv, MLow
  PROVE  IInv'
<1>1. /\ Step /\ phase = "high" /\ age = HALF /\ phase' = "low" /\ m_scl' /\ mbit' = mbit + 1
      /\ UNCHANGED <<m_sda, mbyte, cur, own, clean, exact>>
  BY DEF MLow
<1>2. /\ mbit \in 0 .. BITS /\ mbyte \in Nat /\ ~m_scl
      /\ (mbit = BITS => ~m_sda) /\ (sda_oe => state = "S_ACK") /\ (scl_oe <=> state = "S_STRETCH")
  BY <1>1, Sizes DEF IInv, Registers, TypeOK, MasterOK, Driven
<1>3. scl_sr[1] /\ scl_sr[2] /\ scl_d
  BY <1>1, <1>2, Settled
<1>4. clean => Knows /\ (mbit < BITS => Receives(mbit + 1)) /\ (mbit = BITS => AcksThis)
  <2>1. clean => Knows /\ High
    BY <1>1 DEF IInv, Follows
  <2>2. mbit \in 0 .. BITS + 1
    BY <1>2, Sizes
  <2>3. QED
    BY <1>3, <2>1, <2>2, HighParts
<1>5. clean' => Hears'
  <2> SUFFICES ASSUME clean'
               PROVE  Hears'
    OBVIOUS
  <2>1. HearsHigh
    BY <1>1 DEF IInv, Hears
  <2>2. HearsLow'
    BY <1>1, <1>3, <2>1, Sizes, Kept DEF HearsHigh, HearsLow
  <2>3. QED
    BY <1>1, <2>2 DEF Hears
\* The ACK slot: SDA is low if the slave pulls it, which it does if it is addressed.
<1>6. ASSUME clean, mbit = BITS
      PROVE  /\ ~SDA <=> cfg.sel /\ active
             /\ active => own
             /\ mbyte < INDEX_MOD => (active <=> own)
  <2>1. AcksThis /\ Knows
    BY <1>4, <1>6
  <2>2. ~SDA <=> cfg.sel /\ active
    BY <1>2, <1>6, <2>1 DEF AcksThis, Acks, SDA, sda_pull
  <2>3. CASE mbyte = 0
    <3>1. byte_index = 0
      BY <2>1, <2>3, Sizes, ModFacts DEF AcksThis, Acks
    <3>2. active <=> own
      BY <1>1, <1>6, <2>1, <2>3, <3>1 DEF AcksThis, Knows, Driven
    <3>3. QED
      BY <2>2, <3>2
  <2>4. CASE mbyte > 0
    <3>1. own
      BY <2>1, <2>4 DEF Knows
    <3>2. mbyte < INDEX_MOD => byte_index # 0
      <4>1. mbyte < INDEX_MOD => mbyte % INDEX_MOD = mbyte
        BY <1>2, Sizes, ModFacts
      <4>2. QED
        BY <1>2, <2>1, <2>4, <4>1 DEF AcksThis, Acks
    <3>3. QED
      BY <2>1, <2>2, <3>1, <3>2 DEF AcksThis, Acks
  <2>5. QED
    BY <1>2, <2>3, <2>4
<1>7. clean' => Follows' /\ Knows'
  <2> SUFFICES ASSUME clean'
               PROVE  Follows' /\ Knows'
    OBVIOUS
  <2>1. clean /\ Knows
    BY <1>1, <1>4
  <2>2. CASE mbit < BITS
    <3>1. acked' = acked
      BY <2>2, Sizes DEF MLow
    <3>2. Receives(mbit + 1)
      BY <1>4, <2>1, <2>2
    <3>3. Receives(mbit)'
      BY <1>1, <3>2, Kept DEF Receives
    <3>4. Low'
      <4>1. mbit' < BITS \/ mbit' = BITS
        BY <1>1, <1>2, <2>2, Sizes
      <4>2. CASE mbit' < BITS
        BY <3>3, <4>2 DEF Low
      <4>3. CASE mbit' = BITS
        <5>1. Receives(BITS)'
          BY <1>1, <3>2, <4>3, Kept DEF Receives
        <5>2. QED
          BY <1>1, <1>3, <4>3, <5>1, Kept DEF Low
      <4>4. QED
        BY <4>1, <4>2, <4>3
    <3>5. Knows'
      BY <1>1, <1>2, <2>1, <2>2, <3>1, Sizes, Kept DEF Knows, Driven
    <3>6. QED
      BY <1>1, <3>4, <3>5 DEF Follows
  <2>3. CASE mbit = BITS
    <3>1. acked' = ~SDA
      BY <2>3 DEF MLow
    <3>2. Acks(mbyte)'
      BY <1>1, <1>4, <2>1, <2>3, Kept DEF AcksThis, Acks
    <3>3. Low'
      BY <1>1, <1>3, <2>3, <3>2, Sizes, Kept DEF Low
    <3>4. Knows'
      <4>1. mbit' = BITS + 1 /\ mbyte' = mbyte /\ own' = own /\ UNCHANGED <<active, cfg>>
        BY <1>1, <2>3, Kept
      <4>2. mbyte > 0 => own
        BY <2>1 DEF Knows
      <4>3. acked' <=> cfg.sel /\ active
        BY <1>6, <2>1, <2>3, <3>1
      <4>4. (active => own) /\ (mbyte < INDEX_MOD => (active <=> own))
        BY <1>6, <2>1, <2>3
      <4>5. ~(mbit' <= BITS) /\ mbit' # BITS
        BY <4>1, Sizes
      <4>6. QED
        BY <4>1, <4>2, <4>3, <4>4, <4>5 DEF Knows
    <3>5. QED
      BY <1>1, <3>3, <3>4 DEF Follows
  <2>4. QED
    BY <1>2, <2>2, <2>3, Sizes
<1>8. exact' => Counted'
  <2> SUFFICES ASSUME exact'
               PROVE  Counted'
    OBVIOUS
  <2>1. clean /\ Counted
    BY <1>1 DEF IInv, CountFrom, BusFree
  <2>2. CASE mbit < BITS
    <3>1. hits' = hits
      BY <2>2, Sizes DEF MLow
    <3>2. Pending' <=> Pending
      BY <1>1, <1>2, <1>4, <2>1, <2>2, Kept DEF Pending, Receives
    <3>3. QED
      BY <1>1, <2>1, <3>1, <3>2, Kept DEF Counted
  <2>3. CASE mbit = BITS
    <3>1. AcksThis
      BY <1>4, <2>1, <2>3
    <3>2. ~Pending /\ hits = stretch_count
      BY <1>2, <2>1, <3>1 DEF Counted, Pending, AcksThis, Acks
    <3>3. Pending' <=> active /\ do_stretch
      BY <1>1, <1>2, <1>3, <3>1, Kept DEF Pending, do_stretch, AcksThis, Acks
    <3>4. ~SDA /\ cfg.enable /\ mbyte % INDEX_MOD = cfg.target <=> active /\ do_stretch
      BY <1>6, <2>1, <2>3, <3>1 DEF do_stretch, AcksThis, Acks
    <3>5. hits' = IF active /\ do_stretch THEN (hits + 1) % COUNT_MOD ELSE hits
      BY <2>3, <3>4 DEF MLow
    <3>6. QED
      BY <1>1, <3>2, <3>3, <3>5, Kept DEF Counted
  <2>4. QED
    BY <1>2, <2>2, <2>3, Sizes
<1>9. QED
  BY <1>1, <1>5, <1>7, <1>8, MasterUnconditional DEF IInv, Master
-----------------------------------------------------------------------------
(* One posedge of i2c_slave, by the edge it finds.                         *)

LEMMA QuietFsm ==
  ASSUME Registers, Fsm, ~start_cond, ~stop_cond, ~scl_fall
  PROVE  /\ UNCHANGED <<active, byte_index>>
         /\ (sda_oe' <=> sda_oe) /\ (scl_oe' => scl_oe)
         /\ state \in {"S_IDLE", "S_ACK"} => UNCHANGED <<state, shift, bitc>>
         /\ state = "S_STRETCH" =>
              state' \in {"S_STRETCH", "S_RECV"} /\ UNCHANGED <<shift, bitc>>
         /\ state = "S_RECV" => /\ state' = "S_RECV"
                                /\ shift' = IF scl_rise THEN ShiftIn ELSE shift
                                /\ bitc' = IF scl_rise THEN bitc + 1 ELSE bitc
<1>1. /\ state \in {"S_IDLE", "S_RECV", "S_ACK", "S_STRETCH"}
      /\ (scl_oe <=> state = "S_STRETCH") /\ (sda_oe => state = "S_ACK")
  BY DEF Registers, TypeOK
<1>2. CASE S_IDLE
  BY <1>1, <1>2 DEF S_IDLE
<1>3. CASE S_RECV
  BY <1>1, <1>3 DEF S_RECV, ByteComplete
<1>4. CASE S_ACK
  BY <1>1, <1>4 DEF S_ACK
<1>5. CASE S_STRETCH
  BY <1>1, <1>5 DEF S_STRETCH
<1>6. QED
  BY <1>2, <1>3, <1>4, <1>5 DEF Fsm, Start, Stop

LEMMA FallFsm ==
  ASSUME Registers, Fsm, ~start_cond, ~stop_cond, scl_fall
  PROVE  /\ state = "S_RECV" /\ bitc # BITS =>
              UNCHANGED <<state, shift, bitc, active, byte_index, sda_oe>>
         /\ state = "S_RECV" /\ bitc = BITS =>
              /\ state' = "S_ACK" /\ bitc' = 0 /\ UNCHANGED <<shift, byte_index>>
              /\ IF byte_index = 0 THEN sda_oe' = Match /\ active' = Match
                 ELSE sda_oe' = TRUE /\ active' = active
         /\ state = "S_ACK" =>
              /\ byte_index' = NextIndex /\ UNCHANGED <<bitc, active>>
              /\ state' = IF ~active THEN "S_IDLE" ELSE IF do_stretch THEN "S_STRETCH" ELSE "S_RECV"
         /\ state = "S_IDLE" => UNCHANGED <<state, active, byte_index>>
         /\ state = "S_STRETCH" =>
              state' \in {"S_STRETCH", "S_RECV"} /\ UNCHANGED <<bitc, active, byte_index>>
         /\ scl_oe' /\ ~scl_oe => state = "S_ACK" /\ active /\ do_stretch
<1>1. /\ state \in {"S_IDLE", "S_RECV", "S_ACK", "S_STRETCH"} /\ ~scl_rise
      /\ (scl_oe <=> state = "S_STRETCH") /\ (sda_oe => state = "S_ACK")
  BY DEF Registers, TypeOK, scl_rise, scl_fall
<1>2. CASE S_IDLE
  BY <1>1, <1>2 DEF S_IDLE
<1>3. CASE S_RECV
  BY <1>1, <1>3 DEF S_RECV, ByteComplete
<1>4. CASE S_ACK
  BY <1>1, <1>4 DEF S_ACK
<1>5. CASE S_STRETCH
  BY <1>1, <1>5 DEF S_STRETCH
<1>6. QED
  BY <1>2, <1>3, <1>4, <1>5 DEF Fsm, Start, Stop
-----------------------------------------------------------------------------
(* And what it does to the invariant.                                      *)

LEMMA TickFrame ==
  ASSUME NEW clr \in BOOLEAN, Tick(clr)
  PROVE  /\ Sync /\ Fsm /\ Count(clr)
         /\ age' = IF Stretched THEN 0 ELSE IF age < HALF THEN age + 1 ELSE HALF
         /\ UNCHANGED <<cfg, phase, m_scl, m_sda, mbit, mbyte, cur, acked, own, clean>>
BY DEF Tick

\* The bus between transactions, for a tick or a reset.
LEMMA FreeOn ==
  ASSUME IInv, clean, phase = "free", Sync,
         age' = IF Stretched THEN 0 ELSE IF age < HALF THEN age + 1 ELSE HALF,
         ~scl_oe', ~sda_oe', sda_sr[2] => state' = "S_IDLE"
  PROVE  HearsFree'
<1>1. HearsFree /\ ~m_scl /\ ~m_sda /\ age \in 0 .. HALF
  BY DEF IInv, Hears, MasterOK, Registers, TypeOK
<1>2. SCL /\ SDA /\ ~Stretched
  BY <1>1 DEF HearsFree, SCL, SDA, scl_pull, sda_pull, Stretched
<1>3. /\ scl_sr'[1] /\ sda_sr'[1] /\ (scl_sr'[2] <=> scl_sr[1]) /\ (scl_d' <=> scl_sr[2])
      /\ (sda_sr'[2] <=> sda_sr[1]) /\ (sda_d' <=> sda_sr[2])
  BY <1>2, SyncTypes DEF IInv
<1>4. (age' >= 2 => age >= 1) /\ (age' >= 3 => age >= 2)
  BY <1>1, <1>2, Sizes
<1>5. QED
  BY <1>1, <1>3, <1>4 DEF HearsFree

LEMMA TickFree ==
  ASSUME IInv, NEW clr \in BOOLEAN, Tick(clr), clean, phase = "free"
  PROVE  HearsFree'
<1>1. HearsFree /\ Registers
  BY DEF IInv, Hears
<1>2. ~scl_fall /\ ~start_cond
  BY <1>1 DEF HearsFree, scl_fall, start_cond, scl, sda
<1>3. CASE stop_cond
  <2>1. Stop
    BY <1>2, <1>3 DEF Tick, Fsm, Start
  <2>2. QED
    BY <2>1, FreeOn DEF Stop, Tick
<1>4. CASE ~stop_cond
  <2>1. ~scl_oe' /\ ~sda_oe' /\ (state = "S_IDLE" => state' = "S_IDLE")
    BY <1>1, <1>2, <1>4, QuietFsm DEF HearsFree, Tick
  <2>2. sda_sr[2] => state = "S_IDLE"
    BY <1>1, <1>4 DEF HearsFree, stop_cond, scl, sda
  <2>3. QED
    BY <2>1, <2>2, FreeOn DEF Tick
<1>5. QED
  BY <1>3, <1>4

\* No pull begins, and no byte ends, while SCL is heard high.
LEMMA NoFallNoPull ==
  ASSUME Registers, Fsm, ~scl_fall
  PROVE  (scl_oe' => scl_oe) /\ (sda_oe' => sda_oe)
<1>1. /\ state \in {"S_IDLE", "S_RECV", "S_ACK", "S_STRETCH"}
      /\ (scl_oe <=> state = "S_STRETCH") /\ (sda_oe => state = "S_ACK")
  BY DEF Registers, TypeOK
<1>2. CASE Start \/ Stop
  BY <1>2 DEF Start, Stop
<1>3. CASE ~start_cond /\ ~stop_cond
  BY <1>3, QuietFsm
<1>4. QED
  BY <1>2, <1>3 DEF Fsm

LEMMA TickStart ==
  ASSUME IInv, NEW clr \in BOOLEAN, Tick(clr), clean, phase = "start"
  PROVE  HearsStart' /\ Follows'
<1>1. /\ HearsStart /\ Registers /\ ~m_scl /\ m_sda /\ mbyte = 0 /\ age \in 0 .. HALF
      /\ (age >= 3 => Receives(0))
  BY DEF IInv, Hears, Follows, MasterOK, Registers, TypeOK
<1>2. /\ Sync /\ Fsm /\ Count(clr)
      /\ age' = IF Stretched THEN 0 ELSE IF age < HALF THEN age + 1 ELSE HALF
      /\ UNCHANGED <<cfg, phase, m_scl, m_sda, mbit, mbyte, cur, acked, own, clean>>
  BY TickFrame
<1>3. SCL /\ ~SDA /\ ~Stretched /\ ~scl_fall /\ ~scl_rise
  BY <1>1 DEF HearsStart, SCL, SDA, Stretched, scl_fall, scl_rise, scl
<1>4. /\ scl_sr'[1] /\ ~sda_sr'[1] /\ (scl_sr'[2] <=> scl_sr[1]) /\ (scl_d' <=> scl_sr[2])
      /\ (sda_sr'[2] <=> sda_sr[1]) /\ (sda_d' <=> sda_sr[2])
  BY <1>1, <1>2, <1>3, SyncTypes
<1>5. age' = IF age < HALF THEN age + 1 ELSE HALF
  BY <1>2, <1>3
<1>6. (scl_oe' => scl_oe) /\ (sda_oe' => sda_oe)
  BY <1>1, <1>2, <1>3, NoFallNoPull
<1>7. ~scl_pull' /\ (~sda_pull => ~sda_pull')
  BY <1>1, <1>2, <1>6 DEF HearsStart, scl_pull, sda_pull
<1>8. exact' => exact
  BY DEF Tick, BusFree
<1>9. HearsStart'
  <2>1. age' # 0 /\ (age' < 3 => age < 3) /\ (age' = 1 => age = 0) /\ (age' = 2 => age = 1)
        /\ (age' >= 3 => age >= 2)
    BY <1>1, <1>5, Sizes
  <2>2. age >= 2 => ~sda_sr[1] /\ ~sda_sr[2]
    BY <1>1 DEF HearsStart
  <2>3. QED
    BY <1>1, <1>4, <1>6, <1>7, <1>8, <2>1, <2>2, Sizes DEF HearsStart
<1>10. age' >= 3 => Receives(0)'
  <2> SUFFICES ASSUME age' >= 3
               PROVE  Receives(0)'
    OBVIOUS
  <2>1. age = 2 \/ age >= 3
    BY <1>1, <1>5
  <2>2. 0 % INDEX_MOD = 0
    BY Sizes, ModFacts
  <2>3. CASE age = 2
    <3>1. start_cond
      BY <1>1, <2>3 DEF HearsStart, start_cond, scl, sda
    <3>2. Start
      BY <1>2, <3>1 DEF Fsm, Stop, start_cond, stop_cond
    <3>3. QED
      BY <1>1, <1>2, <2>2, <3>2 DEF Start, Receives
  <2>4. CASE age >= 3
    <3>1. ~start_cond /\ ~stop_cond
      BY <1>1, <2>4 DEF HearsStart, start_cond, stop_cond, sda
    <3>2. state' = "S_RECV" /\ bitc' = bitc /\ byte_index' = byte_index
      BY <1>1, <1>2, <1>3, <2>4, <3>1, QuietFsm DEF Receives
    <3>3. QED
      BY <1>1, <1>2, <2>4, <3>2 DEF Receives
  <2>5. QED
    BY <2>1, <2>3, <2>4
<1>11. QED
  BY <1>2, <1>9, <1>10 DEF Follows

\* While the master holds SCL low: no START, no STOP and no rising edge.
LEMMA LowEdges ==
  ASSUME HearsLow
  PROVE  /\ ~start_cond /\ ~stop_cond /\ ~scl_rise
         /\ (scl_fall <=> scl_d /\ ~scl_sr[2])
BY DEF HearsLow, start_cond, stop_cond, scl_rise, scl_fall, scl, sda

LEMMA TickHearsLow ==
  ASSUME IInv, NEW clr \in BOOLEAN, Tick(clr), clean, phase \in {"low", "set", "stop", "restart"}
  PROVE  HearsLow'
<1>1. HearsLow /\ Registers /\ m_scl /\ age \in 0 .. HALF
  BY DEF IInv, Hears, MasterOK, Registers, TypeOK
<1>2. /\ Sync /\ Fsm /\ age' = IF Stretched THEN 0 ELSE IF age < HALF THEN age + 1 ELSE HALF
      /\ UNCHANGED <<cfg, phase, m_scl, m_sda>>
  BY TickFrame
<1>3. /\ ~scl_sr'[1] /\ (scl_sr'[2] <=> scl_sr[1]) /\ (scl_d' <=> scl_sr[2])
      /\ (sda_sr'[1] <=> SDA) /\ (sda_sr'[2] <=> sda_sr[1]) /\ (sda_d' <=> sda_sr[2])
  BY <1>1, <1>2, SyncTypes DEF SCL
<1>4. ASSUME age' >= 4
      PROVE  SDA' <=> SDA
  <2>1. age >= 3
    BY <1>1, <1>2, <1>4, Sizes
  <2>2. ~scl_fall
    BY <1>1, <2>1, LowEdges DEF IInv, HearsSCL
  <2>3. sda_oe' <=> sda_oe
    BY <1>1, <1>2, <2>2, LowEdges, QuietFsm
  <2>4. QED
    BY <1>2, <2>3 DEF SDA, sda_pull
<1>5. QED
  BY <1>1, <1>2, <1>3, <1>4 DEF HearsLow

\* The last bit of a byte is in: what was shifted in is the byte.
LEMMA WholeByte ==
  ASSUME Registers, Receives(BITS), cur \in Seq(Bit), Len(cur) = BITS
  PROVE  shift = cur
<1>1. shift \in [1 .. BITS -> Bit]
  BY DEF Registers, TypeOK
<1>2. \A k \in 1 .. BITS : shift[k] = cur[k]
  <2> SUFFICES ASSUME NEW k \in 1 .. BITS
               PROVE  shift[k] = cur[k]
    OBVIOUS
  <2>1. shift[BITS - BITS + k] = cur[k]
    BY DEF Receives
  <2>2. BITS - BITS + k = k
    BY Sizes
  <2>3. QED
    BY <2>1, <2>2
<1>3. DOMAIN cur = 1 .. BITS /\ cur = [k \in 1 .. Len(cur) |-> cur[k]]
  OBVIOUS
<1>4. QED
  BY <1>1, <1>2, <1>3

\* The low phases, one position each.
LEMMA TickReceives ==
  ASSUME IInv, NEW clr \in BOOLEAN, Tick(clr), HearsLow, NEW n \in Nat, n < BITS, Receives(n)
  PROVE  Receives(n)' /\ active' = active
<1>1. Registers /\ Fsm /\ ~start_cond /\ ~stop_cond /\ ~scl_rise
      /\ UNCHANGED <<mbyte, cur>>
  BY LowEdges, TickFrame DEF IInv
<1>2. state = "S_RECV" /\ bitc = n /\ bitc # BITS
  BY Sizes DEF Receives
<1>3. UNCHANGED <<state, shift, bitc, active, byte_index>>
  <2>1. CASE scl_fall
    BY <1>1, <1>2, <2>1, FallFsm
  <2>2. CASE ~scl_fall
    BY <1>1, <1>2, <2>2, QuietFsm
  <2>3. QED
    BY <2>1, <2>2
<1>4. QED
  BY <1>1, <1>3 DEF Receives

LEMMA TickAckSlot ==
  ASSUME IInv, NEW clr \in BOOLEAN, Tick(clr), HearsLow, phase \in {"low", "set"}, mbit = BITS,
         IF scl_d THEN Receives(BITS) ELSE AcksThis
  PROVE  IF scl_d' THEN Receives(BITS)' ELSE AcksThis'
<1>1. /\ Registers /\ Sync /\ Fsm /\ ~start_cond /\ ~stop_cond /\ ~scl_rise
      /\ (scl_fall <=> scl_d /\ ~scl_sr[2]) /\ (scl_sr[2] => scl_d)
      /\ UNCHANGED <<mbyte, cur>>
  BY LowEdges, TickFrame DEF IInv, HearsLow
<1>2. scl_d' <=> scl_sr[2]
  BY <1>1, SyncTypes
<1>3. CASE ~scl_d
  <2>1. AcksThis /\ ~scl_d'
    BY <1>1, <1>2, <1>3
  <2>2. UNCHANGED <<state, shift, byte_index, active>> /\ (sda_oe' <=> sda_oe)
    BY <1>1, <1>3, <2>1, QuietFsm DEF AcksThis, Acks
  <2>3. QED
    BY <1>1, <2>1, <2>2 DEF AcksThis, Acks
<1>4. CASE scl_d /\ scl_sr[2]
  <2>1. Receives(BITS) /\ scl_d'
    BY <1>2, <1>4
  <2>2. UNCHANGED <<state, shift, bitc, byte_index, active>>
    BY <1>1, <1>4, <2>1, QuietFsm DEF Receives
  <2>3. QED
    BY <1>1, <2>1, <2>2 DEF Receives
<1>5. CASE scl_d /\ ~scl_sr[2]
  <2>1. Receives(BITS) /\ ~scl_d' /\ scl_fall
    BY <1>1, <1>2, <1>5
  <2>2. /\ state' = "S_ACK" /\ UNCHANGED <<shift, byte_index>>
        /\ IF byte_index = 0 THEN sda_oe' = Match /\ active' = Match
           ELSE sda_oe' = TRUE /\ active' = active
    BY <1>1, <2>1, FallFsm DEF Receives
  <2>3. shift = cur
    BY <1>1, <2>1, WholeByte, Sizes DEF IInv, MasterOK, Sent
  <2>4. byte_index # 0 => active
    <3>1. mbyte \in Nat /\ 0 % INDEX_MOD = 0
      BY Sizes, ModFacts DEF IInv, MasterOK
    <3>2. QED
      BY <2>1, <3>1 DEF Receives
  <2>5. AcksThis'
    BY <1>1, <2>1, <2>2, <2>3, <2>4 DEF AcksThis, Acks, Receives, Match
  <2>6. QED
    BY <2>1, <2>5
<1>6. QED
  BY <1>3, <1>4, <1>5

LEMMA TickAfterAck ==
  ASSUME IInv, NEW clr \in BOOLEAN, Tick(clr), HearsLow, NEW n \in Nat,
         IF scl_d THEN Acks(n) ELSE Acked(n)
  PROVE  (IF scl_d' THEN Acks(n)' ELSE Acked(n)') /\ active' = active
<1>1. /\ Registers /\ Sync /\ Fsm /\ ~start_cond /\ ~stop_cond /\ ~scl_rise
      /\ (scl_fall <=> scl_d /\ ~scl_sr[2]) /\ (scl_sr[2] => scl_d)
      /\ UNCHANGED cfg
  BY LowEdges, TickFrame DEF IInv, HearsLow
<1>2. scl_d' <=> scl_sr[2]
  BY <1>1, SyncTypes
<1>3. state \in {"S_ACK", "S_STRETCH"} => bitc = 0
  BY <1>1 DEF Registers
<1>4. CASE ~scl_d
  <2>1. Acked(n) /\ ~scl_d' /\ ~scl_fall
    BY <1>1, <1>2, <1>4
  <2>2. UNCHANGED <<active, byte_index>>
    BY <1>1, <2>1, QuietFsm
  <2>3. /\ state = "S_IDLE" => state' = "S_IDLE"
        /\ state = "S_RECV" => state' = "S_RECV" /\ bitc' = bitc
        /\ state = "S_STRETCH" => state' = "S_STRETCH" \/ (state' = "S_RECV" /\ bitc' = 0)
    BY <1>1, <1>3, <2>1, QuietFsm
  <2>4. QED
    BY <1>1, <2>1, <2>2, <2>3 DEF Acked
<1>5. CASE scl_d /\ scl_sr[2]
  <2>1. Acks(n) /\ scl_d' /\ ~scl_fall
    BY <1>1, <1>2, <1>5
  <2>2. UNCHANGED <<state, byte_index, active>> /\ (sda_oe' <=> sda_oe)
    BY <1>1, <2>1, QuietFsm DEF Acks
  <2>3. QED
    BY <2>1, <2>2 DEF Acks
<1>6. CASE scl_d /\ ~scl_sr[2]
  <2>1. Acks(n) /\ ~scl_d' /\ scl_fall
    BY <1>1, <1>2, <1>6
  <2>2. /\ byte_index' = NextIndex /\ UNCHANGED <<bitc, active>>
        /\ state' = IF ~active THEN "S_IDLE" ELSE IF do_stretch THEN "S_STRETCH" ELSE "S_RECV"
    BY <1>1, <2>1, FallFsm DEF Acks
  <2>3. byte_index' = (n + 1) % INDEX_MOD
    BY <2>1, <2>2, Sizes, ModFacts DEF NextIndex, Acks
  <2>4. bitc' = 0
    BY <1>3, <2>1, <2>2 DEF Acks
  <2>5. Acked(n)'
    BY <1>1, <2>1, <2>2, <2>3, <2>4 DEF Acked, Acks, do_stretch
  <2>6. QED
    BY <2>1, <2>2, <2>5
<1>7. QED
  BY <1>1, <1>4, <1>5, <1>6

LEMMA TickLow ==
  ASSUME IInv, NEW clr \in BOOLEAN, Tick(clr), clean, phase \in {"low", "stop", "restart"}
  PROVE  Low' /\ Knows'
<1>1. HearsLow /\ Low /\ Knows /\ mbit \in 0 .. BITS + 1 /\ mbyte \in Nat
  BY DEF IInv, Hears, Follows, Registers, TypeOK, MasterOK
<1>2. UNCHANGED <<cfg, phase, mbit, mbyte, cur, acked, own>>
  BY TickFrame
<1>3. CASE mbit < BITS
  <2>1. PICK n \in Nat : n = mbit
    BY <1>1
  <2>2. Receives(n) /\ n < BITS
    BY <1>1, <1>3, <2>1, LowParts
  <2>3. Receives(n)'
    BY <1>1, <2>2, TickReceives
  <2>4. Low'
    BY <1>2, <1>3, <2>1, <2>3 DEF Low
  <2>5. Knows'
    BY <1>1, <1>2, <1>3, Sizes DEF Knows, Driven
  <2>6. QED
    BY <2>4, <2>5
<1>4. CASE mbit = BITS
  <2>1. IF scl_d THEN Receives(BITS) ELSE AcksThis
    BY <1>1, <1>4, LowParts
  <2>2. phase = "low"
    BY <1>4 DEF IInv, MasterOK
  <2>3. IF scl_d' THEN Receives(BITS)' ELSE AcksThis'
    BY <1>1, <1>4, <2>1, <2>2, TickAckSlot
  <2>4. Low'
    BY <1>2, <1>4, <2>3 DEF Low
  <2>5. Knows'
    BY <1>1, <1>2, <1>4, Sizes DEF Knows, Driven
  <2>6. QED
    BY <2>4, <2>5
<1>5. CASE mbit = BITS + 1
  <2>1. PICK n \in Nat : n = mbyte
    BY <1>1
  <2>2. IF scl_d THEN Acks(n) ELSE Acked(n)
    BY <1>1, <1>5, <2>1, LowParts
  <2>3. (IF scl_d' THEN Acks(n)' ELSE Acked(n)') /\ active' = active
    BY <1>1, <2>2, TickAfterAck
  <2>4. Low'
    BY <1>2, <1>5, <2>1, <2>3 DEF Low
  <2>5. Knows'
    BY <1>1, <1>2, <1>5, <2>3, Sizes DEF Knows, Driven
  <2>6. QED
    BY <2>4, <2>5
<1>6. QED
  BY <1>1, <1>3, <1>4, <1>5, Sizes

LEMMA TickSet ==
  ASSUME IInv, NEW clr \in BOOLEAN, Tick(clr), clean, phase = "set"
  PROVE  Set' /\ Knows'
<1>1. HearsLow /\ Set /\ Knows /\ mbit \in 0 .. BITS /\ mbyte \in Nat
  BY Sizes DEF IInv, Hears, Follows, Registers, TypeOK, MasterOK, Driven
<1>2. UNCHANGED <<cfg, phase, mbit, mbyte, cur, acked, own>>
  BY TickFrame
<1>3. Knows'
  BY <1>1, <1>2, Sizes DEF Knows, Driven
<1>4. NextByte' <=> NextByte
  BY <1>2 DEF NextByte
<1>5. CASE NextByte
  <2>1. PICK n \in Nat : n = mbyte - 1
    BY <1>1, <1>5 DEF NextByte
  <2>2. active /\ IF scl_d THEN Acks(n) ELSE Acked(n)
    BY <1>5, <1>1, <2>1 DEF Set
  <2>3. (IF scl_d' THEN Acks(n)' ELSE Acked(n)') /\ active' = active
    BY <1>1, <2>2, TickAfterAck
  <2>4. Set'
    BY <1>2, <1>4, <1>5, <2>1, <2>2, <2>3 DEF Set
  <2>5. QED
    BY <1>3, <2>4
<1>6. CASE ~NextByte /\ mbit < BITS
  <2>1. PICK n \in Nat : n = mbit
    BY <1>1
  <2>2. Receives(n) /\ n < BITS
    BY <1>1, <1>6, <2>1, LowParts, Sizes DEF Set
  <2>3. Receives(n)'
    BY <1>1, <2>2, TickReceives
  <2>4. QED
    BY <1>2, <1>3, <1>4, <1>6, <2>1, <2>3 DEF Set, Low
<1>7. CASE mbit = BITS
  <2>1. ~NextByte
    BY <1>7, Sizes DEF NextByte
  <2>2. IF scl_d THEN Receives(BITS) ELSE AcksThis
    BY <1>1, <1>7, <2>1, LowParts, Sizes DEF Set
  <2>3. IF scl_d' THEN Receives(BITS)' ELSE AcksThis'
    BY <1>1, <1>7, <2>2, TickAckSlot
  <2>4. QED
    BY <1>2, <1>3, <1>4, <1>7, <2>1, <2>3 DEF Set, Low
<1>8. QED
  BY <1>1, <1>5, <1>6, <1>7, Sizes

\* While the master has let SCL go: it is low as long as the slave stretches.
LEMMA HighPull ==
  ASSUME IInv, clean, phase \in {"high", "stopHigh", "restartHigh"}
  PROVE  scl_oe => cfg.sel
<1>1. (scl_oe <=> state = "S_STRETCH")
  BY DEF IInv, Registers, TypeOK
<1>2. CASE phase = "high"
  BY <1>1, <1>2 DEF IInv, Follows, High, Acked, Receives, AcksThis, Acks
<1>3. CASE phase # "high"
  BY <1>3 DEF IInv, Follows, Leaving
<1>4. QED
  BY <1>2, <1>3

LEMMA HighEdges ==
  ASSUME HearsHigh, age \in 0 .. HALF
  PROVE  /\ ~start_cond /\ ~stop_cond /\ ~scl_fall
         /\ (scl_rise <=> age = 2)
BY Sizes DEF HearsHigh, start_cond, stop_cond, scl_rise, scl_fall, scl, sda

LEMMA TickHearsHigh ==
  ASSUME IInv, NEW clr \in BOOLEAN, Tick(clr), clean, phase \in {"high", "stopHigh", "restartHigh"}
  PROVE  HearsHigh'
<1>1. HearsHigh /\ Registers /\ ~m_scl /\ age \in 0 .. HALF
  BY DEF IInv, Hears, MasterOK, Registers, TypeOK
<1>2. /\ Sync /\ Fsm /\ age' = IF Stretched THEN 0 ELSE IF age < HALF THEN age + 1 ELSE HALF
      /\ UNCHANGED <<cfg, phase, m_scl, m_sda>>
  BY TickFrame
<1>3. (SCL <=> ~scl_oe) /\ (Stretched <=> scl_oe)
  BY <1>1, HighPull DEF SCL, scl_pull, Stretched
<1>4. /\ (scl_sr'[1] <=> SCL) /\ (scl_sr'[2] <=> scl_sr[1]) /\ (scl_d' <=> scl_sr[2])
      /\ (sda_sr'[1] <=> SDA) /\ (sda_sr'[2] <=> sda_sr[1]) /\ (sda_d' <=> sda_sr[2])
  BY <1>1, <1>2, SyncTypes
<1>5. (scl_oe' => scl_oe) /\ (sda_oe' <=> sda_oe)
  BY <1>1, <1>2, HighEdges, QuietFsm
<1>6. SDA' <=> SDA
  BY <1>2, <1>5 DEF SDA, sda_pull
<1>7. CASE scl_oe
  <2>1. age = 0 /\ age' = 0
    BY <1>1, <1>2, <1>3, <1>7 DEF HearsHigh
  <2>2. QED
    BY <1>1, <1>3, <1>4, <1>6, <1>7, <2>1, Sizes DEF HearsHigh
<1>8. CASE ~scl_oe
  <2>1. /\ age' >= 1 /\ (age' >= 2 <=> age >= 1) /\ (age' >= 3 <=> age >= 2) /\ age' \in Nat
    BY <1>1, <1>2, <1>3, <1>8, Sizes
  <2>2. QED
    BY <1>1, <1>3, <1>4, <1>5, <1>6, <1>8, <2>1, Sizes DEF HearsHigh
<1>9. QED
  BY <1>7, <1>8

\* A bit is taken at the rising edge.
LEMMA TakesBit ==
  ASSUME IInv, NEW clr \in BOOLEAN, Tick(clr), clean, phase = "high", NEW n \in Nat,
         n = mbit, n < BITS, scl_rise, state = "S_RECV", bitc = n,
         \A k \in 1 .. n : shift[BITS - n + k] = cur[k],
         byte_index = mbyte % INDEX_MOD, mbyte > 0 => active
  PROVE  Receives(n + 1)'
<1>1. /\ HearsHigh /\ Registers /\ age \in 0 .. HALF /\ ~m_scl
      /\ (sda_oe => state = "S_ACK") /\ shift \in [1 .. BITS -> Bit]
      /\ (m_sda <=> cur[n + 1] = 0) /\ cur \in Seq(Bit) /\ Len(cur) = n + 1
  BY Sizes DEF IInv, Hears, MasterOK, Registers, TypeOK, Driven, Sent
<1>2. Fsm /\ UNCHANGED <<mbyte, cur>>
  BY TickFrame
<1>3. ~start_cond /\ ~stop_cond /\ ~scl_fall /\ age = 2
  BY <1>1, HighEdges
<1>4. /\ state' = "S_RECV" /\ shift' = ShiftIn /\ bitc' = n + 1
      /\ UNCHANGED <<active, byte_index>>
  BY <1>1, <1>2, <1>3, QuietFsm
<1>5. cur[n + 1] \in Bit
  BY <1>1
<1>6. sda <=> cur[n + 1] = 1
  <2>1. sda <=> SDA
    BY <1>1, <1>3 DEF HearsHigh, sda
  <2>2. SDA <=> ~m_sda
    BY <1>1 DEF SDA, sda_pull
  <2>3. QED
    BY <1>1, <1>5, <2>1, <2>2 DEF Bit
<1>7. \A k \in 1 .. n + 1 : shift'[BITS - (n + 1) + k] = cur[k]
  <2> SUFFICES ASSUME NEW k \in 1 .. n + 1
               PROVE  shift'[BITS - (n + 1) + k] = cur[k]
    OBVIOUS
  <2>1. CASE k = n + 1
    <3>1. BITS - (n + 1) + k = BITS
      BY <2>1, Sizes
    <3>2. shift'[BITS] = IF sda THEN 1 ELSE 0
      BY <1>4, Sizes DEF ShiftIn
    <3>3. QED
      BY <1>5, <1>6, <2>1, <3>1, <3>2 DEF Bit
  <2>2. CASE k \in 1 .. n
    <3> DEFINE j == BITS - (n + 1) + k
    <3>1. j \in 1 .. BITS /\ j < BITS /\ j + 1 = BITS - n + k
      BY <2>2, Sizes
    <3>2. shift'[j] = shift[j + 1]
      BY <1>4, <3>1 DEF ShiftIn
    <3>3. QED
      BY <2>2, <3>1, <3>2
  <2>3. QED
    BY <2>1, <2>2
<1>8. QED
  BY <1>2, <1>4, <1>7 DEF Receives

LEMMA TickHigh ==
  ASSUME IInv, NEW clr \in BOOLEAN, Tick(clr), clean, phase = "high"
  PROVE  High' /\ Knows'
<1>1. /\ HearsHigh /\ High /\ Knows /\ Registers /\ age \in 0 .. HALF
      /\ mbit \in 0 .. BITS /\ mbyte \in Nat /\ (scl_oe <=> state = "S_STRETCH")
  BY Sizes DEF IInv, Hears, Follows, Registers, TypeOK, MasterOK, Driven
<1>2. Sync /\ Fsm /\ UNCHANGED <<cfg, phase, mbit, mbyte, cur, acked, own>>
  BY TickFrame
<1>3. Knows'
  BY <1>1, <1>2, Sizes DEF Knows, Driven
<1>4. ~start_cond /\ ~stop_cond /\ ~scl_fall
  BY <1>1, HighEdges
<1>5. (scl_d' <=> scl_sr[2]) /\ (scl_rise <=> ~scl_d /\ scl_sr[2]) /\ (scl_d => scl_sr[2])
  BY <1>1, <1>2, SyncTypes DEF HearsHigh, scl_rise, scl
<1>6. NextByte' <=> NextByte
  BY <1>2 DEF NextByte
<1>7. CASE NextByte /\ ~scl_d /\ active /\ Acked(mbyte - 1)
  <2>1. mbit = 0 /\ byte_index = mbyte % INDEX_MOD
    BY <1>1, <1>7 DEF NextByte, Acked
  <2>2. CASE scl_rise
    <3>1. ~scl_oe
      BY <1>1, <2>2, HighEdges DEF HearsHigh
    <3>2. state = "S_RECV" /\ bitc = 0
      BY <1>1, <1>7, <3>1 DEF Acked
    <3>3. Receives(0 + 1)'
      BY <1>7, <2>1, <2>2, <3>2, Sizes, TakesBit
    <3>4. scl_d' /\ 0 + 1 = 1
      BY <1>5, <2>2
    <3>5. mbit' = 0 /\ mbit' < BITS /\ mbit' + 1 = 1
      BY <1>2, <2>1, Sizes
    <3>6. QED
      BY <1>3, <3>3, <3>4, <3>5 DEF High
  <2>3. CASE ~scl_rise
    <3>1. ~scl_d'
      BY <1>5, <1>7, <2>3
    <3>2. UNCHANGED <<active, byte_index>>
      BY <1>1, <1>2, <1>4, QuietFsm
    <3>3. /\ state = "S_RECV" => state' = "S_RECV" /\ bitc' = bitc
          /\ state = "S_STRETCH" => state' \in {"S_STRETCH", "S_RECV"} /\ bitc' = bitc
      BY <1>1, <1>2, <1>4, <2>3, QuietFsm
    <3>4. state = "S_STRETCH" => bitc = 0
      BY <1>1 DEF Registers
    <3>5. Acked(mbyte - 1)'
      BY <1>2, <1>7, <3>2, <3>3, <3>4 DEF Acked
    <3>6. QED
      BY <1>2, <1>3, <1>6, <1>7, <3>1, <3>2, <3>5 DEF High
  <2>4. QED
    BY <2>2, <2>3
<1>8. CASE mbit < BITS /\ ~(NextByte /\ ~scl_d) /\ Receives(IF scl_d THEN mbit + 1 ELSE mbit)
  <2>1. CASE scl_rise
    <3>1. PICK n \in Nat : n = mbit
      BY <1>1
    <3>2. Receives(n) /\ n < BITS
      BY <1>5, <1>8, <2>1, <3>1
    <3>3. Receives(n + 1)'
      BY <2>1, <3>1, <3>2, TakesBit DEF Receives
    <3>4. scl_d'
      BY <1>5, <2>1
    <3>5. QED
      BY <1>2, <1>3, <1>8, <3>1, <3>3, <3>4 DEF High
  <2>2. CASE ~scl_rise
    <3>1. scl_d' <=> scl_d
      BY <1>5, <2>2
    <3>2. PICK n \in Nat : n = IF scl_d THEN mbit + 1 ELSE mbit
      BY <1>1
    <3>3. Receives(n)
      BY <1>8, <3>2
    <3>4. UNCHANGED <<state, shift, bitc, active, byte_index>>
      BY <1>1, <1>2, <1>4, <2>2, <3>3, QuietFsm DEF Receives
    <3>5. Receives(n)'
      BY <1>2, <3>3, <3>4 DEF Receives
    <3>6. n = IF scl_d' THEN mbit' + 1 ELSE mbit'
      BY <1>2, <3>1, <3>2
    <3>7. QED
      BY <1>2, <1>3, <1>6, <1>8, <3>1, <3>5, <3>6 DEF High
  <2>3. QED
    BY <2>1, <2>2
<1>9. CASE mbit = BITS /\ AcksThis
  <2>1. UNCHANGED <<state, shift, active, byte_index>> /\ (sda_oe' <=> sda_oe)
    BY <1>1, <1>2, <1>4, <1>9, QuietFsm DEF AcksThis, Acks
  <2>2. AcksThis'
    BY <1>2, <1>9, <2>1 DEF AcksThis, Acks
  <2>3. QED
    BY <1>2, <1>3, <1>9, <2>2 DEF High
<1>10. QED
  BY <1>1, <1>7, <1>8, <1>9 DEF High

LEMMA TickLeaving ==
  ASSUME IInv, NEW clr \in BOOLEAN, Tick(clr), clean, phase \in {"stopHigh", "restartHigh"}
  PROVE  Leaving' /\ Knows'
<1>1. /\ HearsHigh /\ Leaving /\ Knows /\ Registers /\ age \in 0 .. HALF
      /\ state \in {"S_IDLE", "S_RECV", "S_ACK", "S_STRETCH"}
  BY DEF IInv, Hears, Follows, Registers, TypeOK
<1>2. Fsm /\ UNCHANGED <<cfg, phase, mbit, mbyte, cur, acked, own>>
  BY TickFrame
<1>3. ~start_cond /\ ~stop_cond /\ ~scl_fall
  BY <1>1, HighEdges
<1>4. active' = active /\ (scl_oe' => scl_oe) /\ state' # "S_ACK"
  BY <1>1, <1>2, <1>3, QuietFsm DEF Leaving
<1>5. QED
  BY <1>1, <1>2, <1>4, Sizes DEF Leaving, Knows, Driven

\* A falling edge of SCL is the master's: it is heard in the low phases only.
LEMMA FallsAreTheMasters ==
  ASSUME IInv, exact
  PROVE  /\ ~m_scl => ~scl_fall
         /\ m_scl => HearsLow
<1>1. CASE clean
  BY <1>1, HighEdges DEF IInv, MasterOK, Registers, TypeOK, Hears, HearsFree, HearsStart,
     scl_fall, scl
<1>2. CASE ~clean
  BY <1>2, BusFreeSamples DEF IInv, CountFrom
<1>3. QED
  BY <1>1, <1>2

LEMMA TickCounted ==
  ASSUME IInv, NEW clr \in BOOLEAN, Tick(clr)
  PROVE  exact' => Counted'
<1> SUFFICES ASSUME exact'
             PROVE  Counted'
  OBVIOUS
<1>1. Registers /\ Sync /\ Fsm /\ Count(clr) /\ UNCHANGED <<cfg, m_scl, phase>>
  BY TickFrame DEF IInv
<1>2. /\ state \in {"S_IDLE", "S_RECV", "S_ACK", "S_STRETCH"}
      /\ (scl_oe <=> state = "S_STRETCH") /\ (state = "S_ACK" => ~str_d)
      /\ (scl_oe' <=> state' = "S_STRETCH") /\ (scl_d' <=> scl_sr[2])
  BY <1>1, FsmTypes, SyncTypes DEF Registers, TypeOK
<1>3. CASE clr
  <2>1. BusFree /\ hits' = 0
    BY <1>3 DEF Tick
  <2>2. ~m_scl /\ ~scl_fall
    BY <1>1, <2>1, BusFreeSamples DEF IInv
  <2>3. ~scl_oe'
    BY <1>1, <2>1, <2>2, NoFallNoStretch DEF BusFree
  <2>4. ~Pending'
    BY <1>1, <2>2, <2>3 DEF Pending
  <2>5. QED
    BY <1>1, <1>3, <2>1, <2>4 DEF Counted, Count
<1>4. CASE ~clr
  <2>1. exact /\ Counted /\ hits' = hits
    BY <1>4 DEF Tick, IInv
  <2>2. /\ stretch_count' = IF scl_oe /\ ~str_d THEN (stretch_count + 1) % COUNT_MOD
                            ELSE stretch_count
        /\ (str_d' <=> scl_oe)
    BY <1>1, <1>4 DEF Count
  <2>3. (~m_scl => ~scl_fall) /\ (m_scl => HearsLow)
    BY <2>1, FallsAreTheMasters
  <2>4. m_scl => /\ ~start_cond /\ ~stop_cond /\ (scl_fall <=> scl_d /\ ~scl_sr[2])
                 /\ (scl_sr[2] => scl_d)
    BY <2>3, LowEdges DEF HearsLow
  <2> DEFINE Ack == state = "S_ACK" /\ m_scl /\ scl_d /\ active /\ do_stretch
             Ack1 == state' = "S_ACK" /\ m_scl' /\ scl_d' /\ active' /\ do_stretch'
             Begins == scl_oe' /\ ~scl_oe
  <2>5. Pending' <=> Begins \/ Ack1
    BY <2>2 DEF Pending
  <2>6. Ack => (Begins \/ Ack1)
    <3> SUFFICES ASSUME Ack
                 PROVE  Begins \/ Ack1
      OBVIOUS
    <3>1. CASE scl_fall
      <4>1. state' = "S_STRETCH" /\ ~scl_oe
        BY <1>1, <1>2, <2>4, <3>1, FallFsm
      <4>2. QED
        BY <1>2, <4>1
    <3>2. CASE ~scl_fall
      <4>1. UNCHANGED <<state, active, byte_index>> /\ scl_d'
        BY <1>1, <1>2, <2>4, <3>2, QuietFsm
      <4>2. QED
        BY <1>1, <4>1 DEF do_stretch
    <3>3. QED
      BY <3>1, <3>2
  <2>7. Begins => Ack
    <3> SUFFICES ASSUME Begins
                 PROVE  Ack
      OBVIOUS
    <3>1. scl_fall
      BY <1>1, NoFallNoStretch
    <3>2. m_scl /\ scl_d
      BY <2>3, <2>4, <3>1
    <3>3. QED
      BY <1>1, <2>4, <3>1, <3>2, FallFsm
  <2>8. Ack1 => Ack
    <3> SUFFICES ASSUME Ack1
                 PROVE  Ack
      OBVIOUS
    <3>1. m_scl /\ scl_d /\ ~scl_fall
      BY <1>1, <1>2, <2>4
    <3>2. /\ UNCHANGED <<active, byte_index>> /\ state = "S_ACK"
      BY <1>1, <1>2, <2>4, <3>1, QuietFsm
    <3>3. QED
      BY <1>1, <3>1, <3>2 DEF do_stretch
  <2>9. Pending' <=> Ack
    BY <2>5, <2>6, <2>7, <2>8
  <2>10. CASE scl_oe /\ ~str_d
    BY <1>2, <2>1, <2>2, <2>9, <2>10 DEF Counted, Pending
  <2>11. CASE ~(scl_oe /\ ~str_d)
    BY <2>1, <2>2, <2>9, <2>11 DEF Counted, Pending
  <2>12. QED
    BY <2>10, <2>11
<1>5. QED
  BY <1>3, <1>4

LEMMA TickInv ==
  ASSUME IInv, NEW clr \in BOOLEAN, Tick(clr)
  PROVE  IInv'
<1>1. Registers' /\ MasterOK' /\ HearsSCL' /\ CountFrom'
  BY ClockUnconditional
<1>2. phase' = phase /\ clean' = clean
  BY TickFrame
<1>3. ASSUME clean
      PROVE  /\ Hears'
             /\ phase # "free" => Follows'
             /\ phase \notin {"free", "start"} => Knows'
  <2>1. phase \in {"free", "start", "low", "set", "high", "stop", "stopHigh", "restart", "restartHigh"}
    BY DEF IInv, MasterOK
  <2>2. CASE phase = "free"
    BY <1>2, <1>3, <2>2, TickFree DEF Hears
  <2>3. CASE phase = "start"
    BY <1>2, <1>3, <2>3, TickStart DEF Hears
  <2>4. CASE phase \in {"low", "stop", "restart"}
    BY <1>2, <1>3, <2>4, TickLow, TickHearsLow DEF Hears, Follows
  <2>5. CASE phase = "set"
    BY <1>2, <1>3, <2>5, TickSet, TickHearsLow DEF Hears, Follows
  <2>6. CASE phase = "high"
    BY <1>2, <1>3, <2>6, TickHigh, TickHearsHigh DEF Hears, Follows
  <2>7. CASE phase \in {"stopHigh", "restartHigh"}
    BY <1>2, <1>3, <2>7, TickLeaving, TickHearsHigh DEF Hears, Follows
  <2>8. QED
    BY <2>1, <2>2, <2>3, <2>4, <2>5, <2>6, <2>7
<1>4. exact' => Counted'
  BY TickCounted
<1>5. QED
  BY <1>1, <1>2, <1>3, <1>4 DEF IInv

LEMMA ResetInv ==
  ASSUME IInv, Reset
  PROVE  IInv'
<1>1. Registers' /\ MasterOK' /\ HearsSCL' /\ CountFrom'
  BY ClockUnconditional
<1>2. /\ phase' = phase /\ (clean' => clean /\ phase = "free")
      /\ state' = "S_IDLE" /\ ~scl_oe' /\ ~sda_oe'
  BY DEF Reset
<1>3. clean' => HearsFree'
  BY <1>2, FreeOn DEF Reset
<1>4. exact' => Counted'
  BY <1>2 DEF Reset, Counted, Pending
<1>5. QED
  BY <1>1, <1>2, <1>3, <1>4 DEF IInv, Hears

LEMMA ConfigureInv ==
  ASSUME IInv, NEW c \in Settings, Configure(c)
  PROVE  IInv'
<1>1. Registers' /\ MasterOK' /\ HearsSCL' /\ CountFrom'
  BY ClockUnconditional
<1>2. /\ UNCHANGED <<slaveVars, countVars, masterVars, hits>>
      /\ (clean' => clean /\ phase = "free") /\ (exact' => exact /\ phase = "free")
  BY DEF Configure
<1>3. phase' = phase /\ ((clean' \/ exact') => phase = "free")
  BY <1>2 DEF masterVars
<1>4. clean' => HearsFree'
  BY <1>2 DEF IInv, Hears, HearsFree, slaveVars, masterVars
<1>5. exact' => Counted'
  <2> SUFFICES ASSUME exact'
               PROVE  Counted'
    OBVIOUS
  <2>1. Counted /\ ~m_scl
    BY <1>2 DEF IInv, MasterOK
  <2>2. Pending' <=> Pending
    BY <1>2, <2>1 DEF Pending, slaveVars, countVars, masterVars
  <2>3. QED
    BY <1>2, <2>1, <2>2 DEF Counted, countVars
<1>6. QED
  BY <1>1, <1>3, <1>4, <1>5 DEF IInv, Hears

LEMMA StutterInv ==
  ASSUME IInv, UNCHANGED vars
  PROVE  IInv'
BY DEF IInv, vars, slaveVars, countVars, masterVars, Registers, TypeOK, MasterOK, Driven, Sent,
   HearsSCL, CountFrom, BusFree, Hears, HearsLow, HearsHigh, HearsStart, HearsFree, SCL, SDA,
   scl_pull, sda_pull, Follows, Low, Set, High, Leaving, NextByte, Receives, Acks, AcksThis,
   Acked, Knows, Counted, Pending, do_stretch

LEMMA NextInv ==
  ASSUME IInv, [Next]_vars
  PROVE  IInv'
<1>1. CASE Master
  BY <1>1, CleanMStart, CleanMStartLow, CleanMSetBit, CleanMSetAck, CleanMRelease, CleanMLow,
     CleanMEnd, CleanMStop, CleanMRestart DEF Master
<1>2. QED
  BY <1>1, TickInv, ResetInv, ConfigureInv, StutterInv DEF Next
-----------------------------------------------------------------------------
(* The theorems                                                            *)

\* i2c_slave.v, i2c_inject_top.v: the slave hears each edge three ticks late, and is
\* where it should be when the next one comes.  The invariant the others follow from.
THEOREM SlaveInvariant == Spec => []IInv
<1>1. Init => IInv
  BY InitInv
<1>2. IInv /\ [Next]_vars => IInv'
  BY NextInv
<1>3. QED
  BY <1>1, <1>2, PTL DEF Spec

\* Every register keeps its width.
THEOREM TypeCorrect == Spec => []TypeOK
<1>1. IInv => TypeOK
  BY DEF IInv, Registers
<1>2. QED
  BY <1>1, SlaveInvariant, PTL

\* i2c_slave.v, S_RECV and START: whatever was given up before, the slave has the bits
\* of this byte and the number of this byte when SCL is about to rise.
THEOREM AlignedTheorem == Spec => []Aligned
<1>1. IInv => Aligned
  <2> SUFFICES ASSUME IInv, clean, age = HALF
               PROVE  /\ phase = "set" /\ mbit < BITS =>
                           /\ state \in {"S_RECV"} \cup (IF mbit = 0 /\ mbyte > 0 THEN {"S_STRETCH"} ELSE {})
                           /\ bitc = mbit /\ \A k \in 1 .. mbit : shift[BITS - mbit + k] = cur[k]
                           /\ byte_index = mbyte % INDEX_MOD
                      /\ phase = "set" /\ mbit = BITS =>
                           state = "S_ACK" /\ shift = cur /\ byte_index = mbyte % INDEX_MOD
                      /\ phase = "free" => state = "S_IDLE"
    BY DEF Aligned
  <2>1. mbit \in 0 .. BITS + 1 /\ mbyte \in Nat
    BY DEF IInv, Registers, TypeOK, MasterOK
  <2>2. ASSUME phase = "set"
        PROVE  ~scl_d /\ Set
    BY <2>2, Settled DEF IInv, MasterOK, Follows
  <2>3. ASSUME phase = "set", mbit < BITS
        PROVE  /\ state \in {"S_RECV"} \cup (IF mbit = 0 /\ mbyte > 0 THEN {"S_STRETCH"} ELSE {})
               /\ bitc = mbit /\ \A k \in 1 .. mbit : shift[BITS - mbit + k] = cur[k]
               /\ byte_index = mbyte % INDEX_MOD
    <3>1. CASE NextByte
      <4>1. active /\ Acked(mbyte - 1)
        BY <2>2, <2>3, <3>1 DEF Set
      <4>2. state \in {"S_RECV", "S_STRETCH"} /\ bitc = 0 /\ byte_index = mbyte % INDEX_MOD
        BY <2>1, <3>1, <4>1 DEF Acked, NextByte, IInv, Registers
      <4>3. QED
        BY <3>1, <4>2 DEF NextByte
    <3>2. CASE ~NextByte
      <4>1. Receives(mbit)
        BY <2>1, <2>2, <2>3, <3>2, LowParts DEF Set
      <4>2. QED
        BY <4>1 DEF Receives
    <3>3. QED
      BY <3>1, <3>2
  <2>4. ASSUME phase = "set", mbit = BITS
        PROVE  state = "S_ACK" /\ shift = cur /\ byte_index = mbyte % INDEX_MOD
    <3>1. AcksThis
      BY <2>1, <2>2, <2>4, LowParts, Sizes DEF Set, NextByte
    <3>2. QED
      BY <3>1 DEF AcksThis, Acks
  <2>5. phase = "free" => state = "S_IDLE"
    BY Sizes DEF IInv, Hears, HearsFree
  <2>6. QED
    BY <2>3, <2>4, <2>5
<1>2. QED
  BY <1>1, SlaveInvariant, PTL

\* i2c_slave.v, address match: our transactions are acknowledged and no others, up to
\* the byte where byte_index comes round.
THEOREM AcksOwnTheorem == Spec => []AcksOwn
<1>1. IInv => AcksOwn
  BY DEF IInv, Knows, AcksOwn
<1>2. QED
  BY <1>1, SlaveInvariant, PTL

\* timing_distort.v, i2c_inject_top.v: SCL is held after the armed byte of our
\* transactions only, and each hold counts once.
THEOREM StretchesRightTheorem == Spec => []StretchesRight
<1>1. IInv => StretchOnTarget
  <2> SUFFICES ASSUME IInv, clean, cfg.sel, scl_oe
               PROVE  /\ cfg.enable /\ own /\ acked
                      /\ IF mbit = BITS + 1 \/ phase \in {"stop", "stopHigh", "restart", "restartHigh"}
                         THEN mbyte % INDEX_MOD = cfg.target
                         ELSE mbit = 0 /\ (mbyte - 1) % INDEX_MOD = cfg.target
    BY DEF StretchOnTarget, scl_pull
  <2>1. /\ mbit \in 0 .. BITS + 1 /\ mbyte \in Nat /\ state = "S_STRETCH"
        /\ phase \in {"free", "start", "low", "set", "high", "stop", "stopHigh", "restart", "restartHigh"}
    BY DEF IInv, Registers, TypeOK, MasterOK
  <2>2. phase \notin {"free", "start"}
    BY DEF IInv, Hears, HearsFree, HearsStart, scl_pull
  <2>3. Knows
    BY <2>2 DEF IInv
  <2>4. CASE Low /\ phase \in {"low", "set", "stop", "restart"} /\ ~NextByte
    <3>1. mbit = BITS + 1 /\ Acked(mbyte)
      BY <2>1, <2>4 DEF Low, Receives, AcksThis, Acks
    <3>2. cfg.enable /\ active /\ mbyte % INDEX_MOD = cfg.target
      BY <2>1, <3>1 DEF Acked
    <3>3. QED
      BY <2>3, <3>1, <3>2 DEF Knows
  <2>5. CASE NextByte /\ active /\ Acked(mbyte - 1) /\ phase \in {"set", "high"}
    <3>1. cfg.enable /\ (mbyte - 1) % INDEX_MOD = cfg.target
      BY <2>1, <2>5 DEF Acked
    <3>2. mbit = 0 /\ own /\ acked
      BY <2>3, <2>5, Sizes DEF NextByte, Knows
    <3>3. QED
      BY <2>5, <3>1, <3>2, Sizes
  <2>6. CASE phase \in {"stopHigh", "restartHigh"}
    <3>1. Leaving
      BY <2>6 DEF IInv, Follows
    <3>2. QED
      BY <2>3, <2>6, <3>1 DEF Leaving, Knows
  <2>7. CASE phase = "high"
    <3>1. NextByte /\ active /\ Acked(mbyte - 1)
      BY <2>1, <2>7 DEF IInv, Follows, High, Receives, AcksThis, Acks
    <3>2. QED
      BY <2>5, <2>7, <3>1
  <2>8. CASE phase = "set"
    <3>1. Set
      BY <2>8 DEF IInv, Follows
    <3>2. CASE NextByte
      BY <2>1, <2>5, <2>8, <3>1, <3>2 DEF Set, Acks
    <3>3. CASE ~NextByte
      BY <2>4, <2>8, <3>1, <3>3 DEF Set
    <3>4. QED
      BY <3>2, <3>3
  <2>9. CASE phase \in {"low", "stop", "restart"}
    <3>1. Low
      BY <2>9 DEF IInv, Follows
    <3>2. ~NextByte
      BY <2>1, <2>9, <3>1, Sizes DEF IInv, MasterOK, NextByte, Low, Receives
    <3>3. QED
      BY <2>4, <2>9, <3>1, <3>2
  <2>10. QED
    BY <2>1, <2>2, <2>6, <2>7, <2>8, <2>9
<1>2. IInv => CountsStretches
  <2> SUFFICES ASSUME IInv, exact, age = HALF
               PROVE  hits = (stretch_count + (IF scl_oe /\ ~str_d THEN 1 ELSE 0)) % COUNT_MOD
    BY DEF CountsStretches
  <2>1. Counted /\ stretch_count \in 0 .. COUNT_MOD - 1
    BY DEF IInv, Registers, TypeOK
  <2>2. Pending <=> scl_oe /\ ~str_d
    BY Settled DEF Pending
  <2>3. (stretch_count + 0) % COUNT_MOD = stretch_count
    <3>1. stretch_count \in Nat /\ stretch_count < COUNT_MOD /\ stretch_count + 0 = stretch_count
      BY <2>1, Sizes
    <3>2. QED
      BY <3>1, Sizes, ModFacts
  <2>4. QED
    BY <2>1, <2>2, <2>3 DEF Counted
<1>3. IInv => StretchesRight
  BY <1>1, <1>2 DEF StretchesRight
<1>4. QED
  BY <1>3, SlaveInvariant, PTL

\* i2c_slave.v, S_ACK: SDA is pulled and let go only while SCL is low, so the slave
\* itself never makes a START or a STOP.
THEOREM SdaStableTheorem == Spec => SdaStable
<1>1. ASSUME IInv, [Next]_vars, clean, clean', SCL, SCL'
      PROVE  sda_pull' <=> sda_pull
  <2>1. /\ phase \in {"free", "start", "low", "set", "high", "stop", "stopHigh", "restart", "restartHigh"}
        /\ (m_scl <=> phase \in {"low", "set", "stop", "restart"}) /\ Registers
        /\ (sda_oe => state = "S_ACK") /\ age \in 0 .. HALF
    <3>1. Registers /\ MasterOK
      BY <1>1 DEF IInv
    <3>2. (sda_oe => state = "S_ACK") /\ age \in 0 .. HALF
      BY <3>1 DEF Registers, TypeOK
    <3>3. QED
      BY <3>1, <3>2 DEF MasterOK
  <2>2. ASSUME NEW clr \in BOOLEAN, Tick(clr)
        PROVE  sda_pull' <=> sda_pull
    <3>1. Fsm /\ phase' = phase /\ cfg' = cfg
      BY <2>2, TickFrame
    <3>2. ~m_scl
      BY <1>1 DEF SCL
    <3>3. CASE phase = "free"
      BY <1>1, <2>2, <3>3, TickFree DEF IInv, Hears, HearsFree, sda_pull
    <3>4. CASE phase = "start"
      <4>1. ~scl_fall /\ ~sda_pull
        BY <1>1, <2>1, <3>4 DEF IInv, Hears, HearsStart, Follows, Receives, sda_pull, scl_fall, scl
      <4>2. sda_oe' => sda_oe
        BY <2>1, <3>1, <4>1, NoFallNoPull
      <4>3. QED
        BY <3>1, <4>1, <4>2 DEF sda_pull
    <3>5. CASE phase \in {"high", "stopHigh", "restartHigh"}
      <4>1. ~start_cond /\ ~stop_cond /\ ~scl_fall
        BY <1>1, <2>1, <3>5, HighEdges DEF IInv, Hears
      <4>2. sda_oe' <=> sda_oe
        BY <2>1, <3>1, <4>1, QuietFsm
      <4>3. QED
        BY <3>1, <4>2 DEF sda_pull
    <3>6. QED
      BY <2>1, <3>2, <3>3, <3>4, <3>5
  <2>3. CASE Reset
    BY <1>1, <2>3 DEF Reset, IInv, Hears, HearsFree, sda_pull
  <2>4. ASSUME NEW c \in Settings, Configure(c)
        PROVE  sda_pull' <=> sda_pull
    BY <1>1, <2>4 DEF Configure, IInv, Hears, HearsFree, sda_pull, slaveVars
  <2>5. CASE Master
    <3>1. Step
      BY <2>5 DEF Master, MStart, MStartLow, MSetBit, MSetAck, MRelease, MLow, MEnd, MStop, MRestart
    <3>2. QED
      BY <3>1, Kept DEF sda_pull
  <2>6. CASE UNCHANGED vars
    BY <2>6 DEF vars, slaveVars, sda_pull
  <2>7. QED
    BY <1>1, <2>2, <2>3, <2>4, <2>5, <2>6 DEF Next
<1>2. IInv /\ [Next]_vars => [clean /\ clean' /\ SCL /\ SCL' => sda_pull' = sda_pull]_vars
  <2>1. (sda_pull' <=> sda_pull) => sda_pull' = sda_pull
    BY DEF sda_pull
  <2>2. QED
    BY <1>1, <2>1
<1>3. QED
  BY <1>2, SlaveInvariant, PTL DEF Spec, SdaStable
=============================================================================

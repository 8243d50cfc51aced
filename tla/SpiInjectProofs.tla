-------------------------- MODULE SpiInjectProofs --------------------------
(***************************************************************************)
(* Theorems about the SPI injector, for every byte width, every width of   *)
(* its counters, every target and any number of transactions.              *)
(***************************************************************************)
EXTENDS SpiInject, Integers, TLAPS

LEMMA ModType ==
  ASSUME NEW a \in Nat, NEW m \in Nat, m > 1
  PROVE  a % m \in 0 .. m - 1 /\ a % m \in Nat
  BY SMT

LEMMA ModSmall ==
  ASSUME NEW a \in Nat, NEW m \in Nat, m > 1
  PROVE  (a < m => a % m = a) /\ (a = m => a % m = 0)
  BY SMT

\* The constants as facts.
LEMMA Sizes ==
  /\ BITS \in Nat /\ BITS > 1 /\ FRAME_MOD \in Nat /\ FRAME_MOD > 1
  /\ COUNT_MOD \in Nat /\ COUNT_MOD > 1
  /\ \A t \in Targets : t \in (0 .. FRAME_MOD - 1) \X (0 .. BITS - 1)
  BY SpiOK DEF SpiOK

LEMMA ByteFacts ==
  /\ Zeros \in Byte
  /\ \A x \in Byte, k \in 1 .. BITS, b \in Bit : [x EXCEPT ![k] = b] \in Byte /\ x[k] \in Bit
  BY Sizes DEF Byte, Zeros, Bit

LEMMA CountType ==
  ASSUME TypeOK, CountFlip
  PROVE  flip_count' \in 0 .. COUNT_MOD - 1
<1>1. (flip_count + 1) % COUNT_MOD \in 0 .. COUNT_MOD - 1
  BY Sizes, ModType DEF TypeOK
<1>2. QED
  BY <1>1 DEF CountFlip, TypeOK

LEMMA MisoType ==
  ASSUME TypeOK
  PROVE  miso \in Bit /\ miso_bit \in Bit
<1>1. tx_pos + 1 \in 1 .. BITS
  BY Sizes DEF TypeOK
<1>2. miso_bit \in Bit
  BY <1>1, ByteFacts DEF TypeOK, miso_bit
<1>3. QED
  BY <1>2 DEF miso, Bit

LEMMA ShiftType ==
  ASSUME TypeOK, NEW b \in Bit
  PROVE  ShiftIn(b) \in Byte
<1>1. \A k \in 1 .. BITS : k < BITS => k + 1 \in 1 .. BITS
  BY Sizes
<1>2. rx_shift \in [1 .. BITS -> Bit]
  BY DEF TypeOK, Byte
<1>3. \A k \in 1 .. BITS : (IF k < BITS THEN rx_shift[k + 1] ELSE b) \in Bit
  BY <1>1, <1>2
<1>4. QED
  BY <1>3 DEF ShiftIn, Byte

\* A rising edge keeps the types (bound before the master's last bit).
LEMMA RiseTypes ==
  ASSUME TypeOK, n < BITS, NEW b \in Bit, NEW clr \in BOOLEAN, SclkRise(b, clr)
  PROVE  TypeOK'
<1>1. n + 1 \in 1 .. BITS /\ n' \in 0 .. BITS
  BY Sizes DEF TypeOK, SclkRise
<1>2. recv' \in Byte /\ sent' \in Byte
  BY <1>1, MisoType, ByteFacts DEF TypeOK, SclkRise
<1>3. prev' \in Byte
  BY <1>2 DEF TypeOK, SclkRise
<1>4. hits' \in 0 .. COUNT_MOD - 1
  <2>1. (hits + 1) % COUNT_MOD \in 0 .. COUNT_MOD - 1
    BY Sizes, ModType DEF TypeOK
  <2>2. QED
    BY <2>1 DEF TypeOK, SclkRise
<1>5. SampleMosi(b, clr) /\ CountFlip
  BY DEF SclkRise
<1>6. rx_shift' \in Byte /\ resp' \in Byte
  BY <1>5, ShiftType DEF SampleMosi, TypeOK
<1>7. bit_cnt' \in 0 .. BITS - 1 /\ frame_idx' \in 0 .. FRAME_MOD - 1
  <2>1. (frame_idx + 1) % FRAME_MOD \in 0 .. FRAME_MOD - 1
    BY Sizes, ModType DEF TypeOK
  <2>2. QED
    BY <1>5, <2>1, Sizes DEF SampleMosi, TypeOK
<1>8. reload' \in BOOLEAN
  BY <1>5 DEF SampleMosi, TypeOK
<1>9. quiet' \in BOOLEAN
  BY DEF SclkRise, TypeOK
<1>10. flip_count' \in 0 .. COUNT_MOD - 1
  BY <1>5, CountType
<1>11. sclk' \in Bit /\ UNCHANGED <<cs, tx_byte, tx_pos, enable, target, echo, frame, count0, synced>>
  BY DEF SclkRise, Bit, cfgVars
<1>12. QED
  BY <1>1, <1>2, <1>3, <1>4, <1>6, <1>7, <1>8, <1>9, <1>10, <1>11 DEF TypeOK

\* The master's bit count never passes the byte: between edges with SCLK low it
\* is within one.
CountOK == cs /\ sclk = 0 => n < BITS

THEOREM TypeCorrect == Spec => [](TypeOK /\ CountOK)
<1>1. Init => TypeOK /\ CountOK
  <2> SUFFICES ASSUME Init PROVE TypeOK /\ CountOK
    OBVIOUS
  <2>1. target \in (0 .. FRAME_MOD - 1) \X (0 .. BITS - 1)
    BY Sizes DEF Init
  <2>2. cs \in BOOLEAN /\ reload \in BOOLEAN /\ enable \in BOOLEAN /\ quiet \in BOOLEAN
        /\ synced \in BOOLEAN
    BY Zenon DEF Init
  <2>3. QED
    BY <2>1, <2>2, ByteFacts, Sizes DEF Init, TypeOK, CountOK, Bit
<1>2. TypeOK /\ CountOK /\ [Next]_vars => TypeOK' /\ CountOK'
  <2> SUFFICES ASSUME TypeOK, CountOK, [Next]_vars PROVE TypeOK' /\ CountOK'
    OBVIOUS
  <2> USE DEF Bit
  <2>1. CASE CsLow
    <3>1. flip_count' \in 0 .. COUNT_MOD - 1
      BY <2>1, CountType DEF CsLow
    <3>2. cs' \in BOOLEAN /\ reload' \in BOOLEAN /\ quiet' \in BOOLEAN /\ synced' \in BOOLEAN
          /\ enable' \in BOOLEAN
      BY <2>1, Zenon DEF CsLow, cfgVars, TypeOK
    <3>3. tx_byte' \in Byte /\ echo' \in Byte /\ prev' \in Byte /\ sent' \in Byte /\ recv' \in Byte
      BY <2>1, ByteFacts DEF CsLow, TypeOK
    <3>4. bit_cnt' = 0 /\ tx_pos' = 0 /\ frame_idx' = 0 /\ n' = 0 /\ frame' = 0 /\ hits' = 0
          /\ count0' = flip_count /\ UNCHANGED <<sclk, rx_shift, resp, target>>
      BY <2>1 DEF CsLow, cfgVars
    <3>5. TypeOK'
      BY <3>1, <3>2, <3>3, <3>4, Sizes DEF TypeOK
    <3>6. QED
      BY <3>4, <3>5, Sizes DEF CountOK
  <2>2. CASE CsHigh
    <3>1. cs' = FALSE /\ quiet' = FALSE
      BY <2>2 DEF CsHigh
    <3>2. cs' \in BOOLEAN /\ quiet' \in BOOLEAN
      BY <3>1, Zenon
    <3>3. QED
      BY <2>2, <3>1, <3>2, Sizes, ByteFacts DEF CsHigh, TypeOK, CountOK, slaveVars, cfgVars
  <2>3. CASE SclkFall
    <3>1. flip_count' \in 0 .. COUNT_MOD - 1
      BY <2>3, CountType DEF SclkFall
    <3>2. (tx_pos + 1) % BITS \in 0 .. BITS - 1 /\ (frame + 1) % FRAME_MOD \in 0 .. FRAME_MOD - 1
      BY Sizes, ModType DEF TypeOK
    <3>3. tx_byte' \in Byte /\ tx_pos' \in 0 .. BITS - 1
      BY <2>3, <3>2, Sizes DEF SclkFall, AdvanceMiso, TypeOK
    <3>4. reload' \in BOOLEAN
      BY <2>3 DEF SclkFall, AdvanceMiso, TypeOK
    <3>5. n' \in 0 .. BITS - 1 /\ sent' \in Byte /\ recv' \in Byte /\ echo' \in Byte
          /\ frame' \in 0 .. FRAME_MOD - 1
      BY <2>3, <3>2, Sizes, ByteFacts DEF SclkFall, TypeOK
    <3>6. sclk' = 0 /\ UNCHANGED <<cs, rx_shift, resp, bit_cnt, frame_idx, enable, target, prev,
                                   hits, count0, quiet, synced>>
      BY <2>3 DEF SclkFall, cfgVars
    <3>7. CountOK'
      BY <3>5, Sizes DEF CountOK
    <3>8. TypeOK'
      BY <3>1, <3>3, <3>4, <3>5, <3>6, Sizes DEF TypeOK
    <3>9. QED
      BY <3>7, <3>8
  <2>4. CASE SclkIdle
    BY <2>4 DEF SclkIdle, TypeOK, CountOK, slaveVars, cfgVars, masterVars
  <2>5. CASE ClrFrame
    <3>1. flip_count' \in 0 .. COUNT_MOD - 1
      BY <2>5, CountType DEF ClrFrame
    <3>2. quiet' \in BOOLEAN
      BY <2>5, Zenon DEF ClrFrame
    <3>3. QED
      BY <2>5, <3>1, <3>2, Sizes DEF ClrFrame, TypeOK, CountOK, cfgVars, masterVars
  <2>6. CASE Reset
    <3>1. quiet' \in BOOLEAN /\ synced' \in BOOLEAN /\ enable' \in BOOLEAN /\ reload' \in BOOLEAN
      BY <2>6, Zenon DEF Reset
    <3>2. target' \in (0 .. FRAME_MOD - 1) \X (0 .. BITS - 1)
      BY <2>6, Sizes DEF Reset
    <3>3. QED
      BY <2>6, <3>1, <3>2, Sizes, ByteFacts DEF Reset, TypeOK, CountOK, masterVars
  <2>7. ASSUME NEW b \in Bit, NEW clr \in BOOLEAN, SclkRise(b, clr)
        PROVE  TypeOK' /\ CountOK'
    <3>1. n < BITS /\ sclk' = 1
      BY <2>7 DEF SclkRise, CountOK
    <3>2. QED
      BY <2>7, <3>1, RiseTypes DEF CountOK
  <2>8. ASSUME NEW e \in BOOLEAN, NEW t \in Targets, Configure(e, t)
        PROVE  TypeOK' /\ CountOK'
    <3>1. flip_count' \in 0 .. COUNT_MOD - 1
      BY <2>8, CountType DEF Configure
    <3>4. quiet' \in BOOLEAN
      BY <2>8, Zenon DEF Configure
    <3>2. enable' \in BOOLEAN /\ target' \in (0 .. FRAME_MOD - 1) \X (0 .. BITS - 1)
      BY <2>8, Sizes DEF Configure
    <3>3. QED
      BY <2>8, <3>1, <3>2, <3>4 DEF Configure, TypeOK, CountOK, slaveVars, masterVars
  <2>9. CASE UNCHANGED vars
    BY <2>9 DEF vars, TypeOK, CountOK, slaveVars, cfgVars, masterVars
  <2>10. QED
    BY <2>1, <2>2, <2>3, <2>4, <2>5, <2>6, <2>7, <2>8, <2>9 DEF Next
<1>3. QED
  BY <1>1, <1>2, PTL DEF Spec

-----------------------------------------------------------------------------
(* The slave is where the master is.  Aligned says so at the samples only; *)
(* to carry it from one sample to the next, the strengthening also says    *)
(* what the slave holds between the edges: the reload flag, the bits in    *)
(* the shift register, and the answer that waits for the next byte.        *)

InStep ==
  /\ bit_cnt = IF n = BITS THEN 0 ELSE n
  /\ sclk = 0 => tx_pos = n /\ ~reload
  /\ sclk = 1 => n > 0 /\ tx_pos = n - 1 /\ (reload <=> n = BITS)
  /\ tx_byte = echo
  /\ \A k \in 1 .. n : rx_shift[BITS - n + k] = sent[k]
  /\ quiet => frame_idx = IF n = BITS THEN (frame + 1) % FRAME_MOD ELSE frame

SlaveOK ==
  /\ synced => prev = resp
  /\ quiet => synced
  /\ cs /\ synced => InStep

\* A rising edge that completes no byte.
LEMMA RiseInside ==
  ASSUME TypeOK, InStep, cs, NEW b \in Bit, NEW clr \in BOOLEAN, SclkRise(b, clr), n + 1 < BITS
  PROVE  InStep' /\ UNCHANGED <<prev, resp>>
<1>1. bit_cnt = n /\ bit_cnt # BITS - 1 /\ n' = n + 1 /\ sclk' = 1 /\ tx_pos = n /\ ~reload
  BY Sizes DEF TypeOK, InStep, SclkRise
<1>2. /\ rx_shift' = ShiftIn(b) /\ bit_cnt' = n + 1 /\ UNCHANGED <<resp, reload, tx_byte, tx_pos, echo, frame>>
      /\ frame_idx' = IF clr THEN 0 ELSE frame_idx
  BY <1>1 DEF SclkRise, SampleMosi
<1>3. sent' = [sent EXCEPT ![n + 1] = b] /\ prev' = prev
  BY <1>1, Sizes DEF SclkRise, TypeOK
<1>4. quiet' => quiet /\ ~clr
  BY DEF SclkRise
<1>5. \A k \in 1 .. n + 1 : rx_shift'[BITS - (n + 1) + k] = sent'[k]
  <2> TAKE k \in 1 .. n + 1
  <2>1. BITS - (n + 1) + k \in 1 .. BITS /\ n \in Nat /\ k \in 1 .. BITS
    BY Sizes DEF TypeOK
  <2>2. rx_shift'[BITS - (n + 1) + k] =
          IF BITS - (n + 1) + k < BITS THEN rx_shift[BITS - (n + 1) + k + 1] ELSE b
    BY <1>2, <2>1 DEF ShiftIn
  <2>3. CASE k = n + 1
    <3>1. rx_shift'[BITS - (n + 1) + k] = b
      BY <2>1, <2>2, <2>3, Sizes
    <3>2. sent'[k] = b
      BY <1>3, <2>1, <2>3 DEF TypeOK, Byte
    <3>3. QED
      BY <3>1, <3>2
  <2>4. CASE k # n + 1
    <3>1. k \in 1 .. n /\ BITS - (n + 1) + k < BITS /\ BITS - (n + 1) + k + 1 = BITS - n + k
      BY <2>1, <2>4, Sizes
    <3>2. rx_shift'[BITS - (n + 1) + k] = rx_shift[BITS - n + k]
      BY <2>2, <3>1
    <3>3. sent'[k] = sent[k]
      BY <1>3, <2>1, <2>4 DEF TypeOK, Byte
    <3>4. QED
      BY <3>1, <3>2, <3>3 DEF InStep
  <2>5. QED
    BY <2>3, <2>4
<1>6. quiet' => frame_idx' = frame'
  BY <1>1, <1>2, <1>4, Sizes DEF InStep, TypeOK
<1>7. n' # BITS /\ n' > 0 /\ tx_pos' = n' - 1 /\ ~reload' /\ tx_byte' = echo' /\ sclk' # 0
  BY <1>1, <1>2, Sizes DEF TypeOK, InStep
<1>8. QED
  BY <1>1, <1>2, <1>3, <1>5, <1>6, <1>7 DEF InStep

\* A rising edge that completes the byte: the slave keeps it as its next answer.
LEMMA RiseLast ==
  ASSUME TypeOK, InStep, cs, NEW b \in Bit, NEW clr \in BOOLEAN, SclkRise(b, clr), n + 1 = BITS
  PROVE  InStep' /\ prev' = resp'
<1>1. bit_cnt = n /\ bit_cnt = BITS - 1 /\ n' = BITS /\ sclk' = 1 /\ tx_pos = n
  BY Sizes DEF TypeOK, InStep, SclkRise
<1>2. /\ rx_shift' = ShiftIn(b) /\ resp' = ShiftIn(b) /\ bit_cnt' = 0 /\ reload' = TRUE
      /\ frame_idx' = (frame_idx + 1) % FRAME_MOD /\ UNCHANGED <<tx_byte, tx_pos, echo, frame>>
  BY <1>1 DEF SclkRise, SampleMosi
<1>3. sent' = [sent EXCEPT ![BITS] = b] /\ prev' = sent'
  BY <1>1 DEF SclkRise
<1>4. ShiftIn(b) = sent'
  <2>1. ShiftIn(b) = [k \in 1 .. BITS |-> IF k < BITS THEN rx_shift[k + 1] ELSE b]
    BY DEF ShiftIn
  <2>2. sent \in [1 .. BITS -> Bit]
    BY DEF TypeOK, Byte
  <2>3. \A k \in 1 .. BITS : k < BITS => rx_shift[k + 1] = sent[k]
    <3> SUFFICES ASSUME NEW k \in 1 .. BITS, k < BITS PROVE rx_shift[k + 1] = sent[k]
      OBVIOUS
    <3>1. k \in 1 .. n /\ BITS - n + k = k + 1
      BY <1>1, Sizes
    <3>2. QED
      BY <3>1 DEF InStep
  <2>4. sent' = [k \in 1 .. BITS |-> IF k < BITS THEN sent[k] ELSE b]
    <3>1. \A k \in 1 .. BITS : k < BITS <=> k # BITS
      BY Sizes
    <3>2. QED
      BY <1>3, <2>2, <3>1
  <2>5. QED
    BY <2>1, <2>3, <2>4
<1>5. \A k \in 1 .. BITS : rx_shift'[BITS - BITS + k] = sent'[k]
  BY <1>2, <1>4, Sizes
<1>6. quiet' => frame_idx' = (frame' + 1) % FRAME_MOD
  <2>1. quiet' => quiet
    BY DEF SclkRise
  <2>2. quiet => frame_idx = frame
    BY <1>1, Sizes DEF InStep
  <2>3. QED
    BY <1>2, <2>1, <2>2
<1>7. n' = BITS /\ n' > 0 /\ tx_pos' = n' - 1 /\ tx_byte' = echo' /\ sclk' # 0
  <2>1. tx_pos = BITS - 1 /\ n' = BITS /\ tx_pos' = tx_pos
    BY <1>1, <1>2
  <2>2. tx_byte' = echo'
    BY <1>2 DEF InStep
  <2>3. n' > 0 /\ tx_pos' = n' - 1 /\ sclk' # 0
    BY <1>1, <2>1, Sizes
  <2>4. QED
    BY <2>1, <2>2, <2>3
<1>8. InStep'
  BY <1>1, <1>2, <1>5, <1>6, <1>7, Zenon DEF InStep
<1>9. QED
  BY <1>2, <1>3, <1>4, <1>8

\* The slave follows the master through every transaction, broken off or not.
THEOREM SlaveInvariant == Spec => []SlaveOK
<1>1. Init => SlaveOK
  BY DEF Init, SlaveOK
<1>2. TypeOK /\ CountOK /\ SlaveOK /\ [Next]_vars => SlaveOK'
  <2> SUFFICES ASSUME TypeOK, CountOK, SlaveOK, [Next]_vars PROVE SlaveOK'
    OBVIOUS
  <2>1. CASE CsLow
    <3>1. prev' = resp' /\ echo' = resp' /\ tx_byte' = resp'
      BY <2>1 DEF CsLow, SlaveOK
    <3>2. n' = 0 /\ bit_cnt' = 0 /\ tx_pos' = 0 /\ ~reload' /\ frame_idx' = 0 /\ frame' = 0
          /\ sclk' = 0 /\ synced'
      BY <2>1 DEF CsLow
    <3>3. n' # BITS /\ sclk' # 1
      BY <3>2, Sizes
    <3>4. \A k \in 1 .. n' : rx_shift'[BITS - n' + k] = sent'[k]
      BY <3>2
    <3>5. InStep'
      BY <3>1, <3>2, <3>3, <3>4 DEF InStep
    <3>6. QED
      BY <3>1, <3>2, <3>5 DEF SlaveOK
  <2>2. CASE CsHigh
    BY <2>2 DEF CsHigh, slaveVars, SlaveOK
  <2>3. CASE SclkFall
    <3>1. UNCHANGED <<prev, resp, quiet, synced>>
      BY <2>3 DEF SclkFall
    <3>2. ASSUME synced PROVE InStep'
      <4>1. InStep /\ prev = resp /\ sclk = 1 /\ sclk' = 0 /\ n > 0 /\ tx_pos = n - 1
        BY <2>3, <3>2 DEF SclkFall, SlaveOK, InStep
      <4>2. UNCHANGED <<rx_shift, resp, bit_cnt, frame_idx, prev, quiet>>
        BY <2>3 DEF SclkFall
      <4>3. CASE n = BITS
        <5>1. n' = 0 /\ echo' = prev /\ frame' = (frame + 1) % FRAME_MOD
          BY <2>3, <4>3 DEF SclkFall
        <5>2. reload
          BY <4>1, <4>3 DEF InStep
        <5>3. tx_byte' = resp /\ tx_pos' = 0 /\ ~reload'
          BY <2>3, <5>2 DEF SclkFall, AdvanceMiso
        <5>4. bit_cnt = 0 /\ (quiet => frame_idx = (frame + 1) % FRAME_MOD)
          BY <4>1, <4>3 DEF InStep
        <5>5. n' # BITS /\ sclk' # 1 /\ \A k \in 1 .. n' : rx_shift'[BITS - n' + k] = sent'[k]
          BY <4>1, <5>1, Sizes
        <5>6. QED
          BY <4>1, <4>2, <5>1, <5>3, <5>4, <5>5 DEF InStep
      <4>4. CASE n # BITS
        <5>1. UNCHANGED <<n, sent, recv, echo, frame>>
          BY <2>3, <4>4 DEF SclkFall
        <5>2. ~reload
          BY <4>1, <4>4 DEF InStep
        <5>3. tx_pos' = (tx_pos + 1) % BITS /\ UNCHANGED <<tx_byte, reload>>
          BY <2>3, <5>2 DEF SclkFall, AdvanceMiso
        <5>4. tx_pos + 1 = n /\ n \in Nat /\ n < BITS
          BY <4>1, <4>4, Sizes DEF TypeOK
        <5>5. tx_pos' = n
          BY <5>3, <5>4, Sizes, ModSmall
        <5>6. sclk' # 1
          BY <4>1
        <5>7. QED
          BY <4>1, <4>2, <4>4, <5>1, <5>2, <5>3, <5>5, <5>6 DEF InStep
      <4>5. QED
        BY <4>3, <4>4
    <3>3. QED
      BY <3>1, <3>2 DEF SlaveOK
  <2>4. CASE SclkIdle
    BY <2>4 DEF SclkIdle, slaveVars, masterVars, SlaveOK
  <2>5. CASE ClrFrame
    BY <2>5 DEF ClrFrame, masterVars, SlaveOK, InStep
  <2>6. CASE Reset
    BY <2>6 DEF Reset, masterVars, SlaveOK
  <2>7. ASSUME NEW b \in Bit, NEW clr \in BOOLEAN, SclkRise(b, clr)
        PROVE  SlaveOK'
    <3>1. cs /\ n < BITS /\ synced' = synced /\ (quiet' => quiet)
      BY <2>7 DEF SclkRise, CountOK
    <3>2. ASSUME synced PROVE InStep' /\ prev' = resp'
      <4>1. InStep /\ prev = resp
        BY <3>1, <3>2 DEF SlaveOK
      <4>2. CASE n + 1 < BITS
        BY <2>7, <3>1, <4>1, <4>2, RiseInside
      <4>3. CASE n + 1 = BITS
        BY <2>7, <3>1, <4>1, <4>3, RiseLast
      <4>4. n + 1 < BITS \/ n + 1 = BITS
        BY <3>1, Sizes DEF TypeOK
      <4>5. QED
        BY <4>2, <4>3, <4>4
    <3>3. QED
      BY <3>1, <3>2 DEF SlaveOK
  <2>8. ASSUME NEW e \in BOOLEAN, NEW t \in Targets, Configure(e, t)
        PROVE  SlaveOK'
    BY <2>8 DEF Configure, slaveVars, masterVars, SlaveOK, InStep
  <2>9. CASE UNCHANGED vars
    BY <2>9 DEF vars, slaveVars, cfgVars, masterVars, SlaveOK, InStep
  <2>10. QED
    BY <2>1, <2>2, <2>3, <2>4, <2>5, <2>6, <2>7, <2>8, <2>9 DEF Next
<1>3. QED
  BY <1>1, <1>2, TypeCorrect, PTL DEF Spec

\* At each sample the slave presents the bit of the echo the master is about to read.
THEOREM AlignedTheorem == Spec => []Aligned
<1>1. TypeOK /\ CountOK /\ SlaveOK => Aligned
  <2> SUFFICES ASSUME TypeOK, CountOK, SlaveOK, cs, synced
               PROVE  /\ bit_cnt = n % BITS
                      /\ sclk = 0 => n < BITS /\ tx_pos = n /\ tx_byte = echo
                      /\ quiet => frame_idx = IF n = BITS THEN (frame + 1) % FRAME_MOD ELSE frame
    BY DEF Aligned
  <2>1. InStep
    BY DEF SlaveOK
  <2>2. n % BITS = IF n = BITS THEN 0 ELSE n
    <3>1. n \in Nat /\ (n < BITS \/ n = BITS)
      BY Sizes DEF TypeOK
    <3>2. QED
      BY <3>1, Sizes, ModSmall
  <2>3. QED
    BY <2>1, <2>2 DEF InStep, CountOK
<1>2. QED
  BY <1>1, TypeCorrect, SlaveInvariant, PTL

\* Exactly the armed bit of the armed frame is read inverted.
THEOREM OneBitTheorem == Spec => []OneBitFlipped
<1>1. Init => OneBitFlipped
  BY DEF Init, OneBitFlipped
<1>2. TypeOK /\ CountOK /\ SlaveOK /\ OneBitFlipped /\ [Next]_vars => OneBitFlipped'
  <2> SUFFICES ASSUME TypeOK, CountOK, SlaveOK, OneBitFlipped, [Next]_vars PROVE OneBitFlipped'
    OBVIOUS
  <2>1. CASE CsLow
    <3>1. n' = 0
      BY <2>1 DEF CsLow
    <3>2. QED
      BY <3>1 DEF OneBitFlipped
  <2>2. CASE CsHigh
    BY <2>2 DEF CsHigh, OneBitFlipped
  <2>3. CASE SclkFall
    <3>1. CASE n = BITS
      <4>1. n' = 0
        BY <2>3, <3>1 DEF SclkFall
      <4>2. QED
        BY <4>1 DEF OneBitFlipped
    <3>2. CASE n # BITS
      BY <2>3, <3>2 DEF SclkFall, cfgVars, OneBitFlipped
    <3>3. QED
      BY <3>1, <3>2
  <2>4. CASE SclkIdle
    BY <2>4 DEF SclkIdle, OneBitFlipped
  <2>5. CASE ClrFrame \/ Reset
    BY <2>5 DEF ClrFrame, Reset, OneBitFlipped
  <2>6. ASSUME NEW b \in Bit, NEW clr \in BOOLEAN, SclkRise(b, clr)
        PROVE  OneBitFlipped'
    <3> SUFFICES ASSUME quiet', NEW k \in 1 .. n'
                 PROVE  recv'[k] # echo'[k] <=> enable' /\ frame' = target'[1] /\ BITS - k = target'[2]
      BY DEF OneBitFlipped
    <3>1. /\ cs /\ sclk = 0 /\ quiet /\ n < BITS /\ n' = n + 1 /\ n \in Nat
          /\ UNCHANGED <<enable, target, echo, frame>>
          /\ recv' = [recv EXCEPT ![n + 1] = miso]
      BY <2>6, Sizes DEF SclkRise, CountOK, TypeOK, cfgVars
    <3>2. InStep /\ tx_pos = n /\ tx_byte = echo /\ frame_idx = frame
      BY <3>1, Sizes DEF SlaveOK, InStep
    <3>3. k \in 1 .. BITS /\ n + 1 \in 1 .. BITS
      BY <3>1, Sizes
    <3>4. CASE k = n + 1
      <4>1. recv'[k] = miso /\ echo'[k] = miso_bit /\ miso_bit \in Bit
        BY <3>1, <3>2, <3>3, <3>4, MisoType DEF miso_bit, TypeOK, Byte
      <4>2. miso # miso_bit <=> flip_active
        BY <4>1 DEF miso, Bit
      <4>3. flip_active <=> enable /\ frame = target[1] /\ BITS - 1 - n = target[2]
        BY <3>2 DEF flip_active, bit_num
      <4>4. BITS - 1 - n = BITS - k
        BY <3>1, <3>4, Sizes
      <4>5. QED
        BY <3>1, <4>1, <4>2, <4>3, <4>4
    <3>5. CASE k # n + 1
      <4>1. k \in 1 .. n
        BY <3>1, <3>5
      <4>2. recv'[k] = recv[k]
        BY <3>1, <3>3, <3>5 DEF TypeOK, Byte
      <4>3. QED
        BY <3>1, <4>1, <4>2 DEF OneBitFlipped
    <3>6. QED
      BY <3>4, <3>5
  <2>7. ASSUME NEW e \in BOOLEAN, NEW t \in Targets, Configure(e, t)
        PROVE  OneBitFlipped'
    BY <2>7 DEF Configure, OneBitFlipped
  <2>8. CASE UNCHANGED vars
    BY <2>8 DEF vars, cfgVars, masterVars, OneBitFlipped
  <2>9. QED
    BY <2>1, <2>2, <2>3, <2>4, <2>5, <2>6, <2>7, <2>8 DEF Next
<1>3. QED
  BY <1>1, <1>2, TypeCorrect, SlaveInvariant, PTL DEF Spec

-----------------------------------------------------------------------------
(* Counting.  The two counts differ, by one, while an injected bit is on   *)
(* the wire and not yet sampled; CountExactInside is inductive over        *)
(* SlaveOK because a target past bit 0 is never up while frame_idx and     *)
(* tx_pos move at different edges.                                         *)

LEMMA ModStep ==
  ASSUME NEW m \in Nat, m > 1, NEW a \in Nat
  PROVE  ((a % m) + 1) % m = (a + 1) % m
<1> DEFINE q == a \div m
           q1 == (a + 1) \div m
           r == a % m
           r1 == (a + 1) % m
<1>1. r \in 0 .. m - 1 /\ r1 \in 0 .. m - 1 /\ q \in Int /\ q1 \in Int
  BY SMT
<1>2. a = m * q + r /\ a + 1 = m * q1 + r1
  BY SMT
<1>3. (\A x \in Nat : x < m => x % m = x) /\ m % m = 0
  BY SMT
<1>4. \A k \in Int : (k >= 2 => m * k >= 2 * m) /\ (k <= 0 - 1 => m * k <= 0 - m)
  BY SMT
<1>5. (q1 - q) \in Int /\ m * (q1 - q) = r + 1 - r1
  <2>1. m * q1 \in Int /\ m * q \in Int /\ m * (q1 - q) = m * q1 - m * q
    BY <1>1, SMT
  <2>2. QED
    BY <2>1, <1>1, <1>2
<1>6. q1 - q \in {0, 1}
  <2> HIDE DEF q, q1, r, r1
  <2>1. ~(q1 - q >= 2)
    BY <1>1, <1>4, <1>5
  <2>2. ~(q1 - q <= 0 - 1)
    BY <1>1, <1>4, <1>5
  <2>3. QED
    BY <1>1, <2>1, <2>2
<1>7. r1 = IF r + 1 < m THEN r + 1 ELSE 0
  <2> HIDE DEF q, q1, r, r1
  <2>1. CASE q1 - q = 0
    <3>1. m * (q1 - q) = 0
      BY <2>1
    <3>2. QED
      BY <1>1, <1>5, <3>1
  <2>2. CASE q1 - q = 1
    <3>1. m * (q1 - q) = m
      BY <2>2
    <3>2. QED
      BY <1>1, <1>5, <3>1
  <2>3. QED
    BY <1>6, <2>1, <2>2
<1>8. (r + 1) % m = IF r + 1 < m THEN r + 1 ELSE 0
  <2> HIDE DEF r
  <2>1. r + 1 < m \/ r + 1 = m
    BY <1>1
  <2>2. QED
    BY <1>1, <1>3, <2>1
<1>9. QED
  BY <1>7, <1>8

\* A counter that is one lap ahead reads the same.
LEMMA ModLap ==
  ASSUME NEW m \in Nat, m > 1, NEW c \in 0 .. m - 1
  PROVE  (c + m) % m = c % m
  BY SMT

\* flip_count has gone up, since the select, by exactly the bits read wrong.
THEOREM CountTheorem == Spec => []CountExactInside
<1> DEFINE Inside == target[1] > 0 /\ target[2] > 0
           OnWire == IF flip_active /\ sclk = 0 THEN 1 ELSE 0
<1>1. Init => CountExactInside
  BY DEF Init, CountExactInside, CountExact
<1>2. TypeOK /\ CountOK /\ SlaveOK /\ CountExactInside /\ [Next]_vars => CountExactInside'
  <2> SUFFICES ASSUME TypeOK, CountOK, SlaveOK, CountExactInside, [Next]_vars,
                      cs', quiet', Inside'
               PROVE  flip_count' = (count0' + hits' + OnWire') % COUNT_MOD
    BY DEF CountExactInside, CountExact
  <2>t. /\ count0 \in 0 .. COUNT_MOD - 1 /\ hits \in 0 .. COUNT_MOD - 1
        /\ flip_count \in 0 .. COUNT_MOD - 1 /\ count0 + hits \in Nat
        /\ BITS \in Nat /\ COUNT_MOD \in Nat /\ COUNT_MOD > 1
        /\ tx_pos \in 0 .. BITS - 1 /\ target[2] \in 0 .. BITS - 1
    BY Sizes DEF TypeOK
  <2>1. CASE CsLow
    <3>1. /\ count0' = flip_count /\ hits' = 0 /\ frame_idx' = 0 /\ CountFlip
      BY <2>1 DEF CsLow
    <3>2. ~flip_active'
      BY <3>1 DEF flip_active
    <3>3. flip_count' = flip_count
      BY <3>1, <3>2 DEF CountFlip
    <3>4. flip_count + 0 + 0 = flip_count /\ flip_count % COUNT_MOD = flip_count
      BY <2>t, ModSmall
    <3>5. QED
      BY <3>1, <3>2, <3>3, <3>4
  <2>2. CASE SclkFall
    <3>1. /\ cs /\ quiet /\ sclk = 1 /\ sclk' = 0 /\ target' = target
          /\ UNCHANGED <<frame_idx, enable, count0, hits>> /\ CountFlip /\ AdvanceMiso
      BY <2>2 DEF SclkFall, cfgVars
    <3>2. Inside /\ flip_count = (count0 + hits) % COUNT_MOD
      <4>1. Inside /\ OnWire = 0 /\ count0 + hits + 0 = count0 + hits
        BY <3>1, <2>t
      <4>2. QED
        BY <3>1, <4>1 DEF CountExactInside, CountExact
    <3>3. InStep /\ tx_pos = n - 1 /\ n > 0 /\ n \in 0 .. BITS /\ (reload <=> n = BITS)
      BY <3>1 DEF SlaveOK, InStep, TypeOK
    <3>4. ~flip_active \/ ~flip_active'
      <4>1. CASE reload
        <5>1. bit_num = 0
          BY <2>t, <3>3, <4>1 DEF bit_num
        <5>2. QED
          BY <3>2, <5>1, <2>t DEF flip_active
      <4>2. CASE ~reload
        <5>1. tx_pos' = (tx_pos + 1) % BITS /\ tx_pos + 1 < BITS
          BY <2>t, <3>1, <3>3, <4>2 DEF AdvanceMiso
        <5>2. tx_pos' = tx_pos + 1
          BY <5>1, <2>t, Sizes, ModSmall
        <5>3. bit_num' # bit_num
          BY <5>2, <2>t DEF bit_num
        <5>4. QED
          BY <3>1, <5>3 DEF flip_active
      <4>3. QED
        BY <4>1, <4>2
    <3>5. CASE flip_active'
      <4>1. flip_count' = (((count0 + hits) % COUNT_MOD) + 1) % COUNT_MOD
        BY <3>1, <3>2, <3>4, <3>5 DEF CountFlip
      <4>2. flip_count' = (count0 + hits + 1) % COUNT_MOD
        BY <4>1, <2>t, ModStep
      <4>3. QED
        BY <3>1, <3>5, <4>2
    <3>6. CASE ~flip_active'
      <4>1. flip_count' = (count0 + hits) % COUNT_MOD
        BY <3>1, <3>2, <3>6 DEF CountFlip
      <4>2. OnWire' = 0 /\ count0 + hits + 0 = count0 + hits
        BY <3>6, <2>t
      <4>3. QED
        BY <3>1, <4>1, <4>2
    <3>7. QED
      BY <3>5, <3>6
  <2>3. ASSUME NEW b \in Bit, NEW clr \in BOOLEAN, SclkRise(b, clr)
        PROVE  flip_count' = (count0' + hits' + OnWire') % COUNT_MOD
    <3>1. /\ cs /\ quiet /\ ~clr /\ sclk = 0 /\ sclk' = 1 /\ target' = target /\ enable' = enable
          /\ UNCHANGED <<tx_pos, count0>> /\ CountFlip /\ SampleMosi(b, clr)
          /\ hits' = IF miso # miso_bit THEN (hits + 1) % COUNT_MOD ELSE hits
      BY <2>3 DEF SclkRise, cfgVars
    <3>2. Inside /\ flip_count = (count0 + hits + OnWire) % COUNT_MOD
      BY <3>1 DEF CountExactInside, CountExact
    <3>3. InStep /\ tx_pos = n /\ n < BITS /\ n \in 0 .. BITS /\ bit_cnt = n
      <4>1. InStep /\ n < BITS
        BY <3>1 DEF SlaveOK, CountOK
      <4>2. QED
        BY <4>1, <3>1, <2>t DEF InStep, TypeOK
    <3>4. flip_active' <=> flip_active
      <4>1. CASE n = BITS - 1
        <5>1. bit_num = 0 /\ bit_num' = 0
          BY <2>t, <3>1, <3>3, <4>1 DEF bit_num
        <5>2. QED
          BY <3>1, <3>2, <5>1, <2>t DEF flip_active
      <4>2. CASE n # BITS - 1
        <5>1. frame_idx' = frame_idx
          BY <3>1, <3>3, <4>2 DEF SampleMosi
        <5>2. QED
          BY <3>1, <5>1 DEF flip_active, bit_num
      <4>3. QED
        BY <4>1, <4>2
    <3>5. flip_count' = flip_count
      BY <3>1, <3>4 DEF CountFlip
    <3>6. OnWire' = 0
      BY <3>1
    <3>7. miso # miso_bit <=> flip_active
      BY MisoType DEF miso, Bit
    <3>8. CASE ~flip_active
      <4>1. OnWire = 0 /\ hits' = hits
        BY <3>1, <3>7, <3>8
      <4>2. QED
        BY <3>1, <3>2, <3>5, <3>6, <4>1
    <3>9. CASE flip_active
      <4>1. OnWire = 1 /\ hits' = (hits + 1) % COUNT_MOD
        BY <3>1, <3>7, <3>9
      <4>2. flip_count' = (count0 + hits + 1) % COUNT_MOD
        BY <3>2, <3>5, <4>1
      <4>3. CASE hits + 1 < COUNT_MOD
        <5>1. hits' = hits + 1
          BY <4>1, <4>3, <2>t, ModSmall
        <5>2. count0 + hits + 1 = count0 + hits' + 0
          BY <5>1, <2>t
        <5>3. QED
          BY <3>1, <3>6, <4>2, <5>2
      <4>4. CASE hits + 1 = COUNT_MOD
        <5>1. hits' = 0
          BY <4>1, <4>4, <2>t, ModSmall
        <5>2. count0 + hits + 1 = count0 + COUNT_MOD /\ count0 + 0 + 0 = count0
          BY <4>4, <2>t
        <5>3. (count0 + COUNT_MOD) % COUNT_MOD = count0 % COUNT_MOD
          BY <2>t, ModLap
        <5>4. QED
          BY <3>1, <3>6, <4>2, <5>1, <5>2, <5>3
      <4>5. QED
        BY <4>3, <4>4, <2>t
    <3>10. QED
      BY <3>8, <3>9
  <2>4. ASSUME NEW e \in BOOLEAN, NEW t \in Targets, Configure(e, t)
        PROVE  FALSE
    BY <2>4 DEF Configure
  <2>5. ~CsHigh /\ ~SclkIdle /\ ~ClrFrame /\ ~Reset
    BY DEF CsHigh, SclkIdle, ClrFrame, Reset
  <2>6. CASE UNCHANGED vars
    <3>1. /\ UNCHANGED <<cs, quiet, target, flip_count, count0, hits, sclk>>
          /\ flip_active' <=> flip_active
      BY <2>6 DEF vars, slaveVars, cfgVars, masterVars, flip_active, bit_num
    <3>2. flip_count = (count0 + hits + OnWire) % COUNT_MOD
      BY <3>1 DEF CountExactInside, CountExact
    <3>3. OnWire' = OnWire
      BY <3>1
    <3>4. QED
      BY <3>1, <3>2, <3>3
  <2>7. QED
    BY <2>1, <2>2, <2>3, <2>4, <2>5, <2>6 DEF Next
<1>3. QED
  BY <1>1, <1>2, TypeCorrect, SlaveInvariant, PTL DEF Spec
=============================================================================

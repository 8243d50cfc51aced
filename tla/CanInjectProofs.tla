--------------------------- MODULE CanInjectProofs ---------------------------
(***************************************************************************)
(* Theorems about the CAN frame corruptor, for every bit time, every idle  *)
(* length, every width of its counters and every setting.                  *)
(***************************************************************************)
EXTENDS CanInject, TLAPS

-----------------------------------------------------------------------------
(* The invariant.  The tracker hears the bus three ticks late: rx_d0, rx_s *)
(* and rx_p are what was on it one, two and three ticks ago, and rec_run   *)
(* counts what had passed by then.                                         *)

\* The recessive run as it will be counted one and two ticks from now.
Run1 == IF rx_s THEN rec_run + 1 ELSE 0
Run2 == IF rx_d0 THEN Run1 + 1 ELSE 0

\* Once synced, rec_run is the bus's gap of two ticks ago.
LineOK ==
  /\ gap \in 0 .. IDLE_TH + 1
  /\ ~rx_d0 => gap = 0
  /\ rx_d0 /\ ~rx_s => gap = 1
  /\ rx_d0 /\ rx_s =>
       /\ rec_run <= gap
       /\ synced => IF gap <= IDLE_TH THEN rec_run + 2 = gap ELSE rec_run >= IDLE_TH - 1

\* The transmitter's own bookkeeping; no run of recessive bits looks idle.
TxOK ==
  /\ t_phase \in 0 .. TQ - 1 /\ t_run < IDLE_BITS
  /\ t_run > 0 <=> t_on /\ t_bit
  /\ ~t_on => t_bit /\ t_index = 0 /\ t_phase = 0 /\ ~seen
  /\ t_on /\ t_index = 0 => ~t_bit
  /\ count0[1] \in 0 .. COUNT_MOD - 1 /\ count0[2] \in 0 .. COUNT_MOD - 1

\* The three ticks until the falling edge of a start bit is found: a tracker still
\* in a frame leaves it in time for that edge, or exactly in its tick.
StartOK ==
  /\ t_phase = 0 => /\ rx_d0 /\ rx_s
                    /\ IF seen THEN rec_run >= IDLE_TH - 2 /\ (in_frame => rec_run >= IDLE_TH - 1)
                               ELSE in_frame /\ rec_run = IDLE_TH - 2
  /\ t_phase = 1 => /\ ~rx_d0 /\ rx_s
                    /\ IF seen THEN rec_run >= IDLE_TH - 1 /\ (in_frame => rec_run = IDLE_TH)
                               ELSE in_frame /\ rec_run = IDLE_TH - 1
  /\ t_phase = 2 => /\ ~rx_d0 /\ ~rx_s /\ rx_p
                    /\ rec_run = IDLE_TH /\ (in_frame <=> ~seen)
  /\ frame_count = count0[1]

\* Ticks of the first r - 1 of r bits; the longest run of recessive ticks in a frame.
Before(r) == (r - 1) * TQ
LongestRun == (IDLE_BITS - 1) * TQ

\* From then on: no run is long enough to end the frame, and the position is the
\* transmitter's of three ticks ago.
RunsOK ==
  /\ rec_run <= LongestRun /\ Run1 <= LongestRun /\ Run2 <= LongestRun
  /\ t_bit => Run2 <= Before(t_run) + t_phase

FollowsOK ==
  IF ~seen THEN ~in_frame
  ELSE /\ in_frame
       /\ t_phase >= 3 => bit_index = t_index /\ phase + 3 = t_phase
       /\ t_phase < 3 => bit_index + 1 = t_index /\ phase + 3 = t_phase + TQ

\* The armed bits have begun, the tracker's bit before this tick was one of them.
Begun == cfg.enable /\ (bit_index > cfg.target \/ (bit_index = cfg.target /\ phase > 0))

WasInside ==
  /\ cfg.enable
  /\ IF phase > 0 THEN InWindow
     ELSE bit_index > 0 /\ bit_index - 1 >= cfg.target
          /\ bit_index - 1 < (cfg.target + cfg.width) % INDEX_MOD

CountsOK ==
  /\ seen => (fd_d <=> WasInside)
  /\ frame_count = (count0[1] + IF seen THEN 1 ELSE 0) % COUNT_MOD
  /\ corrupt_count = (count0[2] + IF seen /\ Begun THEN 1 ELSE 0) % COUNT_MOD

Starting == t_on /\ clean /\ t_index = 0 /\ t_phase < 3
Settled  == t_on /\ clean /\ (t_index > 0 \/ t_phase >= 3)

IInv ==
  /\ TypeOK /\ LineOK /\ TxOK
  /\ Starting => StartOK
  /\ Settled => RunsOK /\ FollowsOK /\ CountsOK

-----------------------------------------------------------------------------
(* The constants and the arithmetic                                        *)

LEMMA Sizes ==
  /\ TQ \in Nat /\ TQ > 3 /\ IDLE_BITS \in Nat /\ IDLE_BITS > 0
  /\ COUNT_MOD \in Nat /\ COUNT_MOD > 1 /\ MaxBits \in Nat /\ MaxBits > 0 /\ INDEX_MOD \in Nat
  /\ \A c \in Settings : /\ c.enable \in BOOLEAN
                          /\ c.target \in Nat /\ c.target < INDEX_MOD
                          /\ c.width \in Nat /\ c.width > 0 /\ MaxBits + c.width <= INDEX_MOD
BY CanOK, FrameFits DEF CanOK, FrameFits

LEMMA Threshold ==
  /\ IDLE_TH \in Nat /\ IDLE_TH >= TQ
  /\ LongestRun \in Nat /\ LongestRun + TQ = IDLE_TH
<1>1. \A a, b \in Nat : a > 0 => a * b \in Nat /\ a * b >= b
  BY SMT
<1>2. \A a, b \in Nat : a > 0 => (a - 1) * b \in Nat /\ (a - 1) * b + b = a * b
  BY SMT
<1>3. QED
  BY <1>1, <1>2, Sizes DEF IDLE_TH, LongestRun

LEMMA RunLengths ==
  ASSUME NEW r \in Nat, r > 0, r < IDLE_BITS
  PROVE  /\ Before(r) \in Nat /\ Before(r + 1) = Before(r) + TQ
         /\ Before(r) + TQ <= LongestRun
         /\ Before(1) = 0
<1>1. \A a, b \in Nat : a > 0 => (a - 1) * b \in Nat /\ (a + 1 - 1) * b = (a - 1) * b + b
  BY SMT
<1>2. \A a, b, c \in Nat : a > 0 /\ a < c => (a - 1) * b + b <= (c - 1) * b
  <2> SUFFICES ASSUME NEW a \in Nat, NEW b \in Nat, NEW c \in Nat, a > 0, a < c
               PROVE  (a - 1) * b + b <= (c - 1) * b
    OBVIOUS
  <2>1. c - 1 - a \in Nat
    OBVIOUS
  <2>2. (c - 1 - a) * b >= 0
    BY <2>1
  <2>3. (c - 1) * b = a * b + (c - 1 - a) * b /\ (a - 1) * b + b = a * b
    BY SMT
  <2>4. a * b \in Nat /\ (c - 1 - a) * b \in Nat
    BY <2>1
  <2> QED BY <2>2, <2>3, <2>4
<1>3. QED
  BY <1>1, <1>2, Sizes DEF Before, LongestRun

LEMMA ModNext ==
  ASSUME NEW m \in Nat, m > 0, NEW a \in 0 .. m - 1
  PROVE  /\ a % m = a
         /\ (a + 1) % m = IF a + 1 = m THEN 0 ELSE a + 1
BY SMT

\* The end of the armed bits wraps only beyond any frame.
LEMMA WindowEnd ==
  ASSUME NEW c \in Settings
  PROVE  LET e == (c.target + c.width) % INDEX_MOD IN
         \/ e = c.target + c.width
         \/ c.target > MaxBits - 1 /\ e \in Nat /\ e <= c.target
<1> DEFINE s == c.target + c.width
<1>1. s \in Nat /\ s < 2 * INDEX_MOD /\ INDEX_MOD > 0
  BY Sizes
<1>2. \A m, x \in Nat : m > 0 /\ x < 2 * m => x % m = IF x < m THEN x ELSE x - m
  BY SMT
<1>3. s % INDEX_MOD = IF s < INDEX_MOD THEN s ELSE s - INDEX_MOD
  BY <1>1, <1>2, Sizes
<1> QED BY <1>1, <1>3, Sizes

LEMMA Booleans ==
  ASSUME TypeOK
  PROVE  /\ rx_d0 \in BOOLEAN /\ rx_s \in BOOLEAN /\ rx_p \in BOOLEAN /\ in_frame \in BOOLEAN
         /\ fd_d \in BOOLEAN /\ t_on \in BOOLEAN /\ t_bit \in BOOLEAN /\ seen \in BOOLEAN
         /\ synced \in BOOLEAN /\ clean \in BOOLEAN
BY DEF TypeOK

-----------------------------------------------------------------------------
(* The parts of a step                                                     *)

LEMMA LineStep ==
  ASSUME TypeOK, LineOK, Sync, Gap,
         (RecRun /\ synced' = (synced \/ idle)) \/ (rec_run' = 0 /\ synced' = FALSE)
  PROVE  LineOK'
<1> USE Sizes, Threshold DEF LineOK
<1>1. rec_run \in Nat /\ rec_run <= IDLE_TH
  BY DEF TypeOK
<1>2. /\ rx_d0' = bus /\ rx_s' = rx_d0
      /\ gap' = IF ~bus THEN 0 ELSE IF gap <= IDLE_TH THEN gap + 1 ELSE gap
  BY DEF Sync, Gap
<1>3. gap' \in 0 .. IDLE_TH + 1 /\ (~rx_d0' => gap' = 0) /\ (rx_d0' /\ ~rx_s' => gap' = 1)
  BY <1>2
<1>4. ASSUME rx_d0', rx_s'
      PROVE  /\ rec_run' <= gap'
             /\ synced' => IF gap' <= IDLE_TH THEN rec_run' + 2 = gap' ELSE rec_run' >= IDLE_TH - 1
  <2>1. bus /\ rx_d0
    BY <1>2, <1>4
  <2>2. CASE rec_run' = 0 /\ synced' = FALSE
    BY <1>3, <2>2
  <2>3. CASE RecRun /\ synced' = (synced \/ idle)
    <3>1. CASE ~rx_s
      BY <1>2, <2>1, <2>3, <3>1 DEF RecRun
    <3>2. CASE rx_s
      <4>1. rec_run' = IF rec_run >= IDLE_TH THEN rec_run ELSE rec_run + 1
        BY <2>3, <3>2 DEF RecRun, idle
      <4>2. synced' => synced \/ rec_run >= IDLE_TH
        BY <2>3 DEF idle
      <4>3. gap' = IF gap <= IDLE_TH THEN gap + 1 ELSE gap
        BY <1>2, <2>1
      <4> QED BY <1>1, <2>1, <3>2, <4>1, <4>2, <4>3
    <3> QED BY <3>1, <3>2
  <2> QED BY <2>2, <2>3
<1> QED BY <1>3, <1>4

LEMMA TxStep ==
  ASSUME TypeOK, TxOK, Transmit, count0'[1] \in 0 .. COUNT_MOD - 1, count0'[2] \in 0 .. COUNT_MOD - 1
  PROVE  /\ TxOK' /\ t_index' \in 0 .. MaxBits - 1 /\ t_run' \in 0 .. IDLE_BITS
         /\ t_on' \in BOOLEAN /\ t_bit' \in BOOLEAN /\ seen' \in BOOLEAN
<1> USE Sizes, Booleans DEF TypeOK, TxOK
<1>1. CASE TxIdle
  BY <1>1 DEF TxIdle
<1>2. CASE TxSof
  <2>1. t_on' \in BOOLEAN /\ t_bit' \in BOOLEAN /\ seen' \in BOOLEAN
    BY <1>2, Zenon DEF TxSof
  <2> QED BY <1>2, <2>1 DEF TxSof
<1>3. CASE TxHold
  BY <1>3 DEF TxHold
<1>4. ASSUME NEW b \in BOOLEAN, TxNext(b)
      PROVE  /\ TxOK' /\ t_index' \in 0 .. MaxBits - 1 /\ t_run' \in 0 .. IDLE_BITS
             /\ t_on' \in BOOLEAN /\ t_bit' \in BOOLEAN /\ seen' \in BOOLEAN
  BY <1>4 DEF TxNext
<1>5. CASE TxEnd
  <2>1. t_on' \in BOOLEAN /\ t_bit' \in BOOLEAN /\ seen' \in BOOLEAN
    BY <1>5, Zenon DEF TxEnd
  <2> QED BY <1>5, <2>1 DEF TxEnd
<1> QED BY <1>1, <1>2, <1>3, <1>4, <1>5 DEF Transmit

\* Nobody else writes the bookkeeping of the tracker's registers.
LEMMA RegisterTypes ==
  ASSUME TypeOK, NEW clr \in BOOLEAN, Sync, RecRun, Track, Count(clr)
  PROVE  /\ phase' \in 0 .. TQ - 1 /\ bit_index' \in 0 .. INDEX_MOD - 1 /\ rec_run' \in 0 .. IDLE_TH
         /\ frame_count' \in 0 .. COUNT_MOD - 1 /\ corrupt_count' \in 0 .. COUNT_MOD - 1
         /\ rx_d0' \in BOOLEAN /\ rx_s' \in BOOLEAN /\ rx_p' \in BOOLEAN /\ in_frame' \in BOOLEAN
         /\ fd_d' \in BOOLEAN
<1> USE Sizes, Threshold, Booleans DEF TypeOK
<1>1. INDEX_MOD > 0
  OBVIOUS
<1>2. (phase + 1) % TQ \in 0 .. TQ - 1 /\ (bit_index + 1) % INDEX_MOD \in 0 .. INDEX_MOD - 1
  BY <1>1, ModNext
<1>3. /\ (frame_count + 1) % COUNT_MOD \in 0 .. COUNT_MOD - 1
      /\ (corrupt_count + 1) % COUNT_MOD \in 0 .. COUNT_MOD - 1
  BY ModNext
<1>4. phase' \in 0 .. TQ - 1 /\ bit_index' \in 0 .. INDEX_MOD - 1 /\ in_frame' \in BOOLEAN
  <2>1. phase' \in 0 .. TQ - 1 /\ bit_index' \in 0 .. INDEX_MOD - 1
    BY <1>2 DEF Track, NextPhase
  <2>2. in_frame' \in BOOLEAN
    BY Zenon DEF Track, NextPhase
  <2> QED BY <2>1, <2>2
<1>5. rec_run' \in 0 .. IDLE_TH
  BY DEF RecRun, idle
<1>6. frame_count' \in 0 .. COUNT_MOD - 1 /\ corrupt_count' \in 0 .. COUNT_MOD - 1
  BY <1>3 DEF Count
<1>7. rx_d0' \in BOOLEAN /\ rx_s' \in BOOLEAN /\ rx_p' \in BOOLEAN /\ fd_d' \in BOOLEAN
  BY Zenon DEF Sync, Count, bus, force_dominant
<1> QED BY <1>4, <1>5, <1>6, <1>7

-----------------------------------------------------------------------------
(* A frame, tick by tick                                                   *)

\* The tick in which the transmitter begins.
LEMMA BeginStep ==
  ASSUME IInv, NEW clr \in BOOLEAN, Tick(clr), ~t_on, t_on', clean'
  PROVE  t_phase' = 0 /\ t_index' = 0 /\ StartOK'
<1> USE Sizes, Threshold DEF IInv
<1>1. rec_run \in Nat /\ rec_run <= IDLE_TH /\ gap \in Nat
  BY DEF TypeOK, LineOK
<1>2. TxSof
  BY DEF Tick, Transmit, TxIdle, TxHold, TxNext, TxEnd
<1>3. synced /\ ~clr
  BY Booleans DEF Tick, Begins
<1>4. gap' >= IDLE_TH /\ gap' = IF ~bus THEN 0 ELSE IF gap <= IDLE_TH THEN gap + 1 ELSE gap
  BY <1>2 DEF Tick, Gap, TxSof
<1>5. bus /\ gap >= 3
  BY <1>1, <1>4
<1>6. rx_d0 /\ rx_s
  BY <1>5 DEF LineOK
<1>7. rx_d0' /\ rx_s'
  BY <1>5, <1>6 DEF Tick, Sync
<1>8. IF gap <= IDLE_TH THEN rec_run + 2 = gap ELSE rec_run >= IDLE_TH - 1
  BY <1>3, <1>6 DEF LineOK
<1>9. rec_run' = IF rec_run >= IDLE_TH THEN rec_run ELSE rec_run + 1
  BY <1>6 DEF Tick, RecRun, idle
<1>10. ~fall
  BY <1>6 DEF fall
<1>11. in_frame' <=> in_frame /\ rec_run < IDLE_TH
  BY <1>1, <1>10 DEF Tick, Track, Sof, NextPhase, idle
<1>12. seen' <=> gap' > IDLE_TH \/ ~in_frame
  BY <1>2 DEF TxSof
<1>13. t_phase' = 0 /\ t_index' = 0
  BY <1>2 DEF TxSof
<1>14. IF seen' THEN rec_run' >= IDLE_TH - 2 /\ (in_frame' => rec_run' >= IDLE_TH - 1)
                ELSE in_frame' /\ rec_run' = IDLE_TH - 2
  BY <1>1, <1>4, <1>5, <1>8, <1>9, <1>11, <1>12
<1>15. frame_count' = count0'[1]
  <2>1. count0'[1] = frame_count
    BY DEF Tick, Begins
  <2>2. frame_count' = frame_count
    BY <1>3, <1>10 DEF Tick, Count, Sof
  <2> QED BY <2>1, <2>2
<1> QED BY <1>7, <1>13, <1>14, <1>15 DEF StartOK

\* The three ticks after it.
LEMMA StartStep ==
  ASSUME IInv, NEW clr \in BOOLEAN, Tick(clr), Starting, t_phase < 2, clean'
  PROVE  t_on' /\ t_index' = 0 /\ t_phase' = t_phase + 1 /\ StartOK'
<1> USE Sizes, Threshold DEF IInv
<1>1. /\ rec_run \in Nat /\ rec_run <= IDLE_TH /\ t_phase \in Nat
      /\ t_on /\ t_index = 0 /\ ~t_bit /\ StartOK
  BY DEF TypeOK, TxOK, Starting
<1>2. TxHold
  <2>1. t_phase # TQ - 1
    OBVIOUS
  <2> QED BY <1>1, <2>1, Zenon DEF Tick, Transmit, TxIdle, TxSof, TxNext, TxEnd
<1>3. t_on' /\ t_index' = 0 /\ t_phase' = t_phase + 1 /\ (seen' <=> seen)
  BY <1>1, <1>2 DEF TxHold
<1>4. ~clr /\ ~bus
  BY <1>1 DEF Tick, bus
<1>5. rx_s
  BY <1>1 DEF StartOK
<1>6. ~rx_d0' /\ (rx_s' <=> rx_d0) /\ (rx_p' <=> rx_s)
  BY <1>4 DEF Tick, Sync
<1>7. rec_run' = IF rec_run >= IDLE_TH THEN rec_run ELSE rec_run + 1
  BY <1>5 DEF Tick, RecRun, idle
<1>8. ~Sof
  BY <1>5 DEF Sof, fall
<1>9. in_frame' <=> in_frame /\ rec_run < IDLE_TH
  BY <1>1, <1>8 DEF Tick, Track, NextPhase, idle
<1>10. frame_count' = count0'[1]
  <2>1. count0'[1] = count0[1]
    BY <1>1, <1>3 DEF Tick, Begins
  <2>2. frame_count' = frame_count
    BY <1>4, <1>8 DEF Tick, Count
  <2> QED BY <1>1, <2>1, <2>2 DEF StartOK
<1>11. CASE t_phase = 0
  BY <1>1, <1>3, <1>5, <1>6, <1>7, <1>9, <1>10, <1>11 DEF StartOK
<1>12. CASE t_phase = 1
  BY <1>1, <1>3, <1>5, <1>6, <1>7, <1>9, <1>10, <1>12 DEF StartOK
<1> QED BY <1>1, <1>3, <1>11, <1>12

\* The tick in which its falling edge is found.
LEMMA FoundStep ==
  ASSUME IInv, NEW clr \in BOOLEAN, Tick(clr), Starting, t_phase = 2, clean'
  PROVE  t_on' /\ t_index' = 0 /\ t_phase' = 3 /\ RunsOK' /\ FollowsOK' /\ CountsOK'
<1> USE Sizes, Threshold DEF IInv
<1>1. /\ rec_run \in Nat /\ t_on /\ t_index = 0 /\ ~t_bit /\ StartOK
      /\ count0[1] \in 0 .. COUNT_MOD - 1 /\ count0[2] \in 0 .. COUNT_MOD - 1
      /\ corrupt_count' \in 0 .. COUNT_MOD - 1
  BY RegisterTypes DEF TypeOK, TxOK, Starting, Tick
<1>2. TxHold
  <2>1. t_phase # TQ - 1
    OBVIOUS
  <2> QED BY <1>1, <2>1, Zenon DEF Tick, Transmit, TxIdle, TxSof, TxNext, TxEnd
<1>3. t_on' /\ t_index' = 0 /\ t_phase' = 3 /\ ~t_bit' /\ (seen' <=> seen)
  BY <1>1, <1>2 DEF TxHold
<1>4. ~clr /\ ~bus
  BY <1>1 DEF Tick, bus
<1>5. rx_p /\ ~rx_s /\ ~rx_d0 /\ rec_run = IDLE_TH /\ (in_frame <=> ~seen) /\ frame_count = count0[1]
  BY <1>1 DEF StartOK
<1>6. ~rx_d0' /\ ~rx_s' /\ rec_run' = 0
  BY <1>4, <1>5 DEF Tick, Sync, RecRun
<1>7. Run1' = 0 /\ Run2' = 0
  BY <1>6 DEF Run1, Run2
<1>8. RunsOK'
  BY <1>3, <1>6, <1>7 DEF RunsOK
<1>9. Sof <=> seen
  BY <1>5 DEF Sof, fall, idle
<1>10. IF seen THEN in_frame' /\ phase' = 0 /\ bit_index' = 0 ELSE ~in_frame'
  BY <1>5, <1>9 DEF Tick, Track, NextPhase, idle
<1>11. FollowsOK'
  BY <1>3, <1>10 DEF FollowsOK
<1>12. frame_count' = IF seen THEN (frame_count + 1) % COUNT_MOD ELSE frame_count
  BY <1>4, <1>9 DEF Tick, Count
<1>13. count0' = <<count0[1], corrupt_count'>>
  BY <1>1, <1>3 DEF Tick, Begins, Recognised
<1>14. ~(seen' /\ Begun') /\ (seen' => ~WasInside')
  <2>1. cfg' = cfg /\ cfg.target \in Nat
    BY DEF Tick, TypeOK
  <2> QED BY <1>3, <1>10, <2>1 DEF Begun, WasInside
<1>15. seen => ~fd_d'
  BY <1>5 DEF Tick, Count, force_dominant
<1>16. (count0[1] + 0) % COUNT_MOD = count0[1] /\ (corrupt_count' + 0) % COUNT_MOD = corrupt_count'
  <2>1. \A a \in 0 .. COUNT_MOD - 1 : (a + 0) % COUNT_MOD = a
    BY ModNext
  <2> QED BY <1>1, <2>1
<1>17. frame_count' = (count0'[1] + IF seen' THEN 1 ELSE 0) % COUNT_MOD
  BY <1>3, <1>5, <1>12, <1>13, <1>16
<1>18. corrupt_count' = (count0'[2] + IF seen' /\ Begun' THEN 1 ELSE 0) % COUNT_MOD
  BY <1>13, <1>14, <1>16
<1>19. CountsOK'
  BY <1>3, <1>14, <1>15, <1>17, <1>18 DEF CountsOK
<1> QED BY <1>3, <1>8, <1>11, <1>19

\* A tick of a settled frame that does not end it.
LEMMA SettledRuns ==
  ASSUME IInv, NEW clr \in BOOLEAN, Tick(clr), Settled, t_on'
  PROVE  /\ rec_run < IDLE_TH /\ ~Sof /\ RunsOK'
         /\ t_index' > 0 \/ t_phase' >= 3
         /\ (seen' <=> seen)
         /\ IF t_phase < TQ - 1 THEN t_phase' = t_phase + 1 /\ t_index' = t_index
            ELSE t_phase' = 0 /\ t_index' = t_index + 1
<1> USE Sizes, Threshold DEF IInv
<1>1. /\ rec_run \in Nat /\ t_on /\ RunsOK /\ t_index \in Nat /\ t_phase \in 0 .. TQ - 1
      /\ t_run \in Nat /\ t_run < IDLE_BITS /\ (t_run > 0 <=> t_bit)
  BY DEF TypeOK, TxOK, Settled
<1>2. rec_run < IDLE_TH
  BY <1>1 DEF RunsOK
<1>3. ~Sof
  BY <1>1, <1>2 DEF Sof, idle
<1>4. /\ rec_run' = Run1
      /\ Run1' = Run2
      /\ Run2' = IF bus THEN Run2 + 1 ELSE 0
  <2>1. rec_run' = Run1
    BY <1>1, <1>2 DEF Tick, RecRun, idle, Run1
  <2>2. rx_s' = rx_d0 /\ rx_d0' = bus
    BY DEF Tick, Sync
  <2>3. Run1' = Run2
    BY <2>1, <2>2 DEF Run1, Run2
  <2> QED BY <2>1, <2>2, <2>3 DEF Run2
<1>5. Run1 \in Nat /\ Run2 \in Nat
  BY <1>1 DEF Run1, Run2
<1>6. bus => t_bit /\ t_run > 0 /\ Run2 <= Before(t_run) + t_phase
  BY <1>1 DEF bus, RunsOK
<1>7. bus => Run2' <= LongestRun
  BY <1>1, <1>4, <1>5, <1>6, RunLengths
<1>8. TxHold \/ (\E b \in BOOLEAN : TxNext(b))
  BY <1>1, Zenon DEF Tick, Transmit, TxIdle, TxSof, TxEnd
<1>9. CASE TxHold
  <2>1. t_phase < TQ - 1 /\ t_phase' = t_phase + 1 /\ UNCHANGED <<t_on, t_bit, t_index, t_run, seen>>
    BY <1>9 DEF TxHold
  <2>2. t_bit' => Run2' <= Before(t_run') + t_phase'
    <3>1. CASE bus
      BY <1>1, <1>4, <1>5, <1>6, <2>1, <3>1, RunLengths
    <3>2. CASE ~bus
      BY <1>1, <1>4, <2>1, <3>2, RunLengths
    <3> QED BY <3>1, <3>2
  <2>3. RunsOK'
    BY <1>1, <1>4, <1>5, <1>7, <2>2 DEF RunsOK
  <2> QED BY <1>1, <1>2, <1>3, <2>1, <2>3 DEF Settled
<1>10. ASSUME NEW b \in BOOLEAN, TxNext(b)
       PROVE  /\ RunsOK' /\ t_phase = TQ - 1 /\ t_phase' = 0 /\ t_index' = t_index + 1
              /\ (seen' <=> seen)
  <2>1. /\ t_phase = TQ - 1 /\ (b => t_run + 1 < IDLE_BITS) /\ (t_bit' <=> b) /\ t_phase' = 0
        /\ t_index' = t_index + 1 /\ t_run' = (IF b THEN t_run + 1 ELSE 0) /\ (seen' <=> seen)
    BY <1>10 DEF TxNext
  <2>2. b => Run2' <= Before(t_run + 1)
    <3>1. CASE bus
      BY <1>1, <1>4, <1>5, <1>6, <2>1, <3>1, RunLengths
    <3>2. CASE ~bus /\ b
      <4>1. Before(t_run + 1) \in Nat
        BY <1>1, <2>1, <3>2, RunLengths
      <4> QED BY <1>4, <3>2, <4>1
    <3> QED BY <3>1, <3>2
  <2>3. t_bit' => Run2' <= Before(t_run') + t_phase'
    <3>1. b => Before(t_run + 1) \in Nat
      BY <1>1, <2>1, RunLengths
    <3> QED BY <2>1, <2>2, <3>1
  <2>4. RunsOK'
    BY <1>1, <1>4, <1>5, <1>7, <2>3 DEF RunsOK
  <2> QED BY <2>1, <2>4
<1> QED BY <1>1, <1>2, <1>3, <1>8, <1>9, <1>10

\* The position goes on, the counters count the first armed tick only.
LEMMA SettledStep ==
  ASSUME IInv, NEW clr \in BOOLEAN, Tick(clr), Settled, t_on', clean'
  PROVE  Settled' /\ RunsOK' /\ FollowsOK' /\ CountsOK'
<1> USE Sizes DEF IInv
<1>1. /\ t_on /\ FollowsOK /\ CountsOK /\ cfg \in Settings
      /\ t_index \in Nat /\ t_index < MaxBits /\ t_phase \in 0 .. TQ - 1
      /\ phase \in 0 .. TQ - 1 /\ bit_index \in 0 .. INDEX_MOD - 1
      /\ t_index > 0 \/ t_phase >= 3
      /\ count0[1] \in 0 .. COUNT_MOD - 1 /\ count0[2] \in 0 .. COUNT_MOD - 1
  BY DEF TypeOK, TxOK, Settled
<1>2. /\ rec_run < IDLE_TH /\ ~Sof /\ RunsOK' /\ (t_index' > 0 \/ t_phase' >= 3) /\ (seen' <=> seen)
      /\ IF t_phase < TQ - 1 THEN t_phase' = t_phase + 1 /\ t_index' = t_index
         ELSE t_phase' = 0 /\ t_index' = t_index + 1
  BY SettledRuns
<1>3. ~clr /\ cfg' = cfg /\ Settled'
  BY <1>2 DEF Tick, Settled
<1>4. count0'[1] = count0[1] /\ count0'[2] = count0[2] /\ frame_count' = frame_count
  <2>1. count0' = <<count0[1], count0[2]>>
    BY <1>1 DEF Tick, Begins, Recognised
  <2>2. frame_count' = frame_count
    BY <1>2, <1>3 DEF Tick, Count
  <2> QED BY <1>1, <2>1, <2>2
<1>5. CASE ~seen
  <2>1. ~in_frame /\ ~in_frame'
    BY <1>1, <1>2, <1>5 DEF FollowsOK, Tick, Track, NextPhase
  <2>2. corrupt_count' = corrupt_count
    BY <1>3, <2>1 DEF Tick, Count, force_dominant
  <2> QED BY <1>1, <1>2, <1>3, <1>4, <1>5, <2>1, <2>2 DEF FollowsOK, CountsOK
<1>6. CASE seen
  <2>1. in_frame /\ NextPhase /\ in_frame'
    <3>1. ~idle
      BY <1>2 DEF idle, TypeOK, IDLE_TH
    <3>2. in_frame
      BY <1>1, <1>6 DEF FollowsOK
    <3>3. NextPhase
      BY <3>1, <3>2, <1>2 DEF Tick, Track
    <3> QED BY <3>2, <3>3 DEF NextPhase
  <2>2. /\ t_phase >= 3 => bit_index = t_index /\ phase + 3 = t_phase
        /\ t_phase < 3 => bit_index + 1 = t_index /\ phase + 3 = t_phase + TQ
    BY <1>1, <1>6 DEF FollowsOK
  <2>3. bit_index < MaxBits /\ bit_index + 1 < INDEX_MOD
    BY <1>1, <2>2
  <2>4. IF phase = TQ - 1 THEN phase' = 0 /\ bit_index' = bit_index + 1
                          ELSE phase' = phase + 1 /\ bit_index' = bit_index
    <3>1. (phase + 1) % TQ = (IF phase + 1 = TQ THEN 0 ELSE phase + 1)
          /\ (bit_index + 1) % INDEX_MOD = bit_index + 1
      BY <1>1, <2>3, ModNext
    <3> QED BY <1>1, <2>1, <3>1 DEF NextPhase
  <2>5. FollowsOK'
    BY <1>1, <1>2, <1>6, <2>1, <2>2, <2>4 DEF FollowsOK
  <2> DEFINE e == (cfg.target + cfg.width) % INDEX_MOD
  <2>6. /\ cfg.target \in Nat /\ cfg.width \in Nat /\ cfg.width > 0 /\ e \in Nat
        /\ e = cfg.target + cfg.width \/ (cfg.target > MaxBits - 1 /\ e <= cfg.target)
    BY <1>1, WindowEnd
  <2>7. InWindow <=> bit_index >= cfg.target /\ bit_index < e
    BY DEF InWindow
  <2>8. WasInside <=> /\ cfg.enable
                      /\ IF phase > 0 THEN bit_index >= cfg.target /\ bit_index < e
                         ELSE bit_index > 0 /\ bit_index - 1 >= cfg.target /\ bit_index - 1 < e
    BY <2>7 DEF WasInside
  <2>9. WasInside' <=> /\ cfg.enable
                       /\ IF phase' > 0 THEN bit_index' >= cfg.target /\ bit_index' < e
                          ELSE bit_index' > 0 /\ bit_index' - 1 >= cfg.target /\ bit_index' - 1 < e
    BY <1>3 DEF WasInside, InWindow
  <2>10. force_dominant <=> cfg.enable /\ bit_index >= cfg.target /\ bit_index < e
    BY <2>1, <2>7 DEF force_dominant
  <2> HIDE DEF e
  <2>11. fd_d' <=> WasInside'
    <3>1. fd_d' <=> force_dominant
      BY DEF Tick, Count
    <3> QED BY <1>1, <2>4, <2>9, <2>10, <3>1
  <2>12. force_dominant /\ ~fd_d <=> Begun' /\ ~Begun
    <3>1. fd_d <=> WasInside
      BY <1>1, <1>6 DEF CountsOK
    <3>2. Begun' <=> cfg.enable /\ (bit_index' > cfg.target \/ (bit_index' = cfg.target /\ phase' > 0))
      BY <1>3 DEF Begun
    <3> QED BY <1>1, <2>3, <2>4, <2>6, <2>8, <2>10, <3>1, <3>2 DEF Begun
  <2>13. Begun => Begun'
    BY <1>1, <1>3, <2>4, <2>6 DEF Begun
  <2>14. corrupt_count' = (count0[2] + IF Begun' THEN 1 ELSE 0) % COUNT_MOD
    <3>1. corrupt_count = (count0[2] + IF Begun THEN 1 ELSE 0) % COUNT_MOD
      BY <1>1, <1>6 DEF CountsOK
    <3>2. CASE force_dominant /\ ~fd_d
      <4>1. corrupt_count = count0[2]
        <5>1. corrupt_count = (count0[2] + 0) % COUNT_MOD
          BY <2>12, <3>1, <3>2
        <5>2. count0[2] % COUNT_MOD = count0[2] /\ count0[2] + 0 = count0[2]
          BY <1>1, ModNext
        <5> QED BY <5>1, <5>2
      <4>2. corrupt_count' = (corrupt_count + 1) % COUNT_MOD
        BY <3>2 DEF Tick, Count
      <4> QED BY <2>12, <3>2, <4>1, <4>2
    <3>3. CASE ~(force_dominant /\ ~fd_d)
      <4>1. corrupt_count' = corrupt_count
        BY <1>3, <3>3 DEF Tick, Count
      <4>2. Begun' <=> Begun
        BY <2>12, <2>13, <3>3
      <4> QED BY <3>1, <4>1, <4>2
    <3> QED BY <3>2, <3>3
  <2>15. CountsOK'
    BY <1>1, <1>2, <1>4, <1>6, <2>11, <2>14 DEF CountsOK
  <2> QED BY <1>2, <1>3, <2>5, <2>15
<1> QED BY <1>5, <1>6

-----------------------------------------------------------------------------
(* The theorems                                                            *)

LEMMA InitInv == Init => IInv
<1> SUFFICES ASSUME Init PROVE IInv
  OBVIOUS
<1> USE Sizes, Threshold
<1>1. TypeOK
  <2>1. {rx_d0, rx_s, rx_p, in_frame, fd_d, t_on, t_bit, seen, synced, clean} \subseteq BOOLEAN
    BY Zenon DEF Init
  <2>2. cfg \in Settings /\ INDEX_MOD > 0
    BY DEF Init
  <2> QED BY <2>1, <2>2 DEF Init, TypeOK
<1>2. LineOK /\ TxOK
  BY DEF Init, LineOK, TxOK
<1> QED BY <1>1, <1>2 DEF Init, IInv, Starting, Settled

LEMMA TickInv ==
  ASSUME IInv, NEW clr \in BOOLEAN, Tick(clr)
  PROVE  IInv'
<1> USE DEF IInv
<1>1. LineOK'
  BY LineStep DEF Tick
<1>2. count0'[1] \in 0 .. COUNT_MOD - 1 /\ count0'[2] \in 0 .. COUNT_MOD - 1
  BY RegisterTypes, Sizes DEF Tick, TypeOK, TxOK
<1>3. /\ TxOK' /\ t_index' \in 0 .. MaxBits - 1 /\ t_run' \in 0 .. IDLE_BITS
      /\ t_on' \in BOOLEAN /\ t_bit' \in BOOLEAN /\ seen' \in BOOLEAN
  BY <1>2, TxStep DEF Tick
<1>4. TypeOK'
  <2>1. synced' \in BOOLEAN /\ clean' \in BOOLEAN
    BY Booleans, Zenon DEF Tick
  <2>2. cfg' \in Settings
    BY DEF Tick, TypeOK
  <2>3. {rx_d0', rx_s', rx_p', in_frame', fd_d', t_on', t_bit', seen', synced', clean'} \subseteq BOOLEAN
    BY <1>3, <2>1, RegisterTypes, Zenon DEF Tick
  <2> QED BY <1>3, <2>2, <2>3, RegisterTypes DEF Tick, TypeOK
<1>5. ASSUME t_on', clean'
      PROVE  (Starting' => StartOK') /\ (Settled' => RunsOK' /\ FollowsOK' /\ CountsOK')
  <2>1. CASE ~t_on
    BY <1>5, <2>1, BeginStep DEF Starting, Settled
  <2>2. CASE t_on
    <3>1. clean
      BY <1>5, <2>2 DEF Tick, Begins
    <3>2. t_phase \in Nat /\ t_index \in Nat
      BY Sizes DEF TypeOK, TxOK
    <3>3. CASE Starting /\ t_phase < 2
      BY <1>5, <3>2, <3>3, StartStep DEF Starting, Settled
    <3>4. CASE Starting /\ t_phase = 2
      BY <1>5, <3>4, FoundStep DEF Starting, Settled
    <3>5. CASE Settled
      <4>1. Settled' /\ RunsOK' /\ FollowsOK' /\ CountsOK'
        BY <1>5, <3>5, SettledStep
      <4>2. t_phase' \in Nat /\ t_index' \in Nat
        BY <1>3, Sizes DEF TxOK
      <4> QED BY <4>1, <4>2 DEF Starting, Settled
    <3> QED BY <2>2, <3>1, <3>2, <3>3, <3>4, <3>5 DEF Starting, Settled
  <2> QED BY <2>1, <2>2
<1> QED BY <1>1, <1>3, <1>4, <1>5 DEF Starting, Settled

LEMMA ResetInv ==
  ASSUME IInv, Reset
  PROVE  IInv'
<1> USE DEF IInv
<1>1. LineOK'
  BY LineStep DEF Reset
<1>2. count0'[1] \in 0 .. COUNT_MOD - 1 /\ count0'[2] \in 0 .. COUNT_MOD - 1
  BY Sizes DEF Reset
<1>3. /\ TxOK' /\ t_index' \in 0 .. MaxBits - 1 /\ t_run' \in 0 .. IDLE_BITS
      /\ t_on' \in BOOLEAN /\ t_bit' \in BOOLEAN /\ seen' \in BOOLEAN
  BY <1>2, TxStep DEF Reset
<1>4. TypeOK'
  <2>1. rx_d0' \in BOOLEAN /\ rx_s' \in BOOLEAN /\ rx_p' \in BOOLEAN /\ in_frame' \in BOOLEAN
        /\ fd_d' \in BOOLEAN /\ synced' \in BOOLEAN /\ clean' \in BOOLEAN
    BY Booleans, Zenon DEF Reset, Sync, bus
  <2>2. {rx_d0', rx_s', rx_p', in_frame', fd_d', t_on', t_bit', seen', synced', clean'} \subseteq BOOLEAN
    BY <1>3, <2>1, Zenon
  <2>3. cfg' \in Settings /\ INDEX_MOD > 0
    BY Sizes DEF Reset, TypeOK
  <2> QED BY <1>3, <2>2, <2>3, Sizes, Threshold DEF Reset, TypeOK
<1>5. ~clean'
  BY DEF Reset
<1> QED BY <1>1, <1>3, <1>4, <1>5 DEF Starting, Settled

LEMMA ConfigureInv ==
  ASSUME IInv, NEW c \in Settings, Configure(c)
  PROVE  IInv'
<1> USE DEF IInv, Configure, fpgaVars, txVars
<1>1. {rx_d0', rx_s', rx_p', in_frame', fd_d', t_on', t_bit', seen', synced', clean'} \subseteq BOOLEAN
  BY Booleans, Zenon
<1>2. TypeOK'
  BY <1>1 DEF TypeOK
<1>3. LineOK' /\ TxOK' /\ ~clean'
  BY DEF LineOK, TxOK
<1> QED BY <1>2, <1>3 DEF Starting, Settled

\* The tracker hears what the transmitter sends, three ticks late, in every reachable state.
THEOREM TrackerInvariant == Spec => []IInv
<1>1. IInv /\ [Next]_vars => IInv'
  <2> SUFFICES ASSUME IInv, [Next]_vars PROVE IInv'
    OBVIOUS
  <2>1. CASE UNCHANGED vars
    BY <2>1 DEF vars, fpgaVars, txVars, IInv, TypeOK, LineOK, TxOK, Starting, Settled, StartOK,
                RunsOK, FollowsOK, CountsOK, Run1, Run2, Begun, WasInside, InWindow
  <2> QED BY <2>1, TickInv, ResetInv, ConfigureInv DEF Next
<1> QED BY <1>1, InitInv, PTL DEF Spec

\* From the fourth tick of a frame on the tracker is at the transmitter's bit, three
\* ticks behind; a frame it cannot tell from the one before it leaves alone.
THEOREM TracksFrameTheorem == Spec => []TracksFrame
<1>1. IInv => TracksFrame
  <2> SUFFICES ASSUME IInv, Settled
               PROVE  IF seen THEN in_frame /\ bit_index * TQ + phase + 3 = t_index * TQ + t_phase
                              ELSE ~in_frame
    BY DEF TracksFrame, Settled
  <2> USE Sizes DEF IInv, TypeOK, TxOK
  <2>1. FollowsOK
    OBVIOUS
  <2>2. ASSUME seen PROVE in_frame /\ bit_index * TQ + phase + 3 = t_index * TQ + t_phase
    <3>1. CASE t_phase >= 3
      BY <2>1, <2>2, <3>1 DEF FollowsOK
    <3>2. CASE t_phase < 3
      <4>1. in_frame /\ bit_index + 1 = t_index /\ phase + 3 = t_phase + TQ
        BY <2>1, <2>2, <3>2 DEF FollowsOK
      <4>2. \A a, b \in Nat : (a + 1) * b = a * b + b /\ a * b \in Nat
        BY SMT
      <4>3. t_index * TQ = bit_index * TQ + TQ /\ bit_index * TQ \in Nat
        BY <4>1, <4>2
      <4> QED BY <4>1, <4>3
    <3> QED BY <3>1, <3>2
  <2> QED BY <2>1, <2>2 DEF FollowsOK
<1> QED BY <1>1, TrackerInvariant, PTL

\* The bus carries the transmitter's bits but for the armed ones, which are dominant.
THEOREM ForcesArmedBitsTheorem == Spec => []ForcesArmedBits
<1>1. IInv => ForcesArmedBits
  <2> SUFFICES ASSUME IInv, Settled, t_phase >= 3
               PROVE  bus = (t_bit /\ ~(cfg.enable /\ seen
                                        /\ t_index \in cfg.target .. cfg.target + cfg.width - 1))
    BY DEF ForcesArmedBits, Settled
  <2> DEFINE armed == t_index \in cfg.target .. cfg.target + cfg.width - 1
  <2>1. FollowsOK /\ cfg \in Settings /\ t_index \in 0 .. MaxBits - 1
    BY DEF IInv, TypeOK
  <2>2. force_dominant <=> cfg.enable /\ seen /\ armed
    <3>1. CASE seen
      <4>1. in_frame /\ bit_index = t_index
        BY <2>1, <3>1 DEF FollowsOK
      <4>2. InWindow <=> armed
        BY <2>1, <4>1, WindowEnd, Sizes DEF InWindow
      <4> QED BY <3>1, <4>1, <4>2 DEF force_dominant
    <3>2. CASE ~seen
      BY <2>1, <3>2 DEF FollowsOK, force_dominant
    <3> QED BY <3>1, <3>2
  <2> QED BY <2>2, Zenon DEF bus
<1> QED BY <1>1, TrackerInvariant, PTL

\* Every frame that is seen is counted once, and once as corrupted when its armed bit has come.
THEOREM CountsOnceTheorem == Spec => []CountsOnce
<1>1. IInv => CountsOnce
  <2> DEFINE begun == cfg.enable /\ t_index * TQ + t_phase >= cfg.target * TQ + 4
  <2> SUFFICES ASSUME IInv, Settled
               PROVE  /\ frame_count = (count0[1] + IF seen THEN 1 ELSE 0) % COUNT_MOD
                      /\ corrupt_count = (count0[2] + IF seen /\ begun THEN 1 ELSE 0) % COUNT_MOD
    BY DEF CountsOnce, Settled
  <2>1. CountsOK /\ FollowsOK /\ cfg \in Settings /\ t_index \in Nat /\ bit_index \in Nat
        /\ phase \in 0 .. TQ - 1 /\ t_phase \in 0 .. TQ - 1 /\ cfg.target \in Nat
    BY Sizes DEF IInv, TypeOK, TxOK
  <2>2. ASSUME seen PROVE begun <=> Begun
    <3>1. t_index * TQ + t_phase = bit_index * TQ + phase + 3
      <4>1. \A a, b \in Nat : (a + 1) * b = a * b + b /\ a * b \in Nat
        BY SMT
      <4>2. t_phase < 3 => t_index * TQ = bit_index * TQ + TQ
        BY <2>1, <2>2, <4>1, Sizes DEF FollowsOK
      <4>3. bit_index * TQ \in Nat
        BY <2>1, <4>1, Sizes
      <4> QED BY <2>1, <2>2, <4>2, <4>3, Sizes DEF FollowsOK
    <3>2. \A a, b, m, p \in Nat : p < m => (a * m + p >= b * m + 1 <=> a > b \/ (a = b /\ p > 0))
      <4> SUFFICES ASSUME NEW a \in Nat, NEW b \in Nat, NEW m \in Nat, NEW p \in Nat, p < m
                   PROVE  a * m + p >= b * m + 1 <=> a > b \/ (a = b /\ p > 0)
        OBVIOUS
      <4>1. a * m \in Nat /\ b * m \in Nat
        OBVIOUS
      <4>2. \A x, y \in Nat : x > y => x * m >= y * m + m
        <5> SUFFICES ASSUME NEW x \in Nat, NEW y \in Nat, x > y PROVE x * m >= y * m + m
          OBVIOUS
        <5>1. x - y - 1 \in Nat
          OBVIOUS
        <5>2. (x - y - 1) * m \in Nat
          BY <5>1
        <5>3. x * m = (x - y - 1) * m + y * m + m
          BY SMT
        <5> QED BY <5>2, <5>3
      <4> QED BY <4>1, <4>2
    <3>3. cfg.target * TQ \in Nat /\ bit_index * TQ \in Nat
      BY <2>1, Sizes
    <3> QED BY <2>1, <3>1, <3>2, <3>3, Sizes DEF Begun
  <2> QED BY <2>1, <2>2 DEF CountsOK
<1> QED BY <1>1, TrackerInvariant, PTL
=============================================================================

------------------------------ MODULE CanInject ------------------------------
(***************************************************************************)
(* The CAN injector: frame_corrupt, on a wired-AND bus with a transmitter. *)
(*                                                                         *)
(* Tick is one posedge of the FPGA clock; the transmitter keeps to the     *)
(* same clock, TQ ticks a bit.  It may end a frame after any bit, which is *)
(* also how one cut short by an error frame looks from here.  Between two  *)
(* frames CAN has eleven recessive bits at least: the acknowledge          *)
(* delimiter or the end of an error delimiter, end of frame, intermission. *)
(* Lines are TRUE when recessive.                                          *)
(***************************************************************************)
EXTENDS Naturals

CONSTANTS
  TQ,         \* ticks of a bit
  IDLE_BITS,  \* recessive bits that end a frame (11)
  INDEX_MOD,  \* values of bit_index (2^16)
  COUNT_MOD,  \* values of frame_count and corrupt_count (2^16)
  Settings,   \* what the host arms: [enable, target, width]
  MaxBits     \* bound: bits of a frame

IDLE_TH == IDLE_BITS * TQ

ASSUME CanOK ==
  /\ TQ \in Nat \ {0, 1, 2, 3} /\ IDLE_BITS \in Nat \ {0} /\ COUNT_MOD \in Nat \ {0, 1}
  /\ MaxBits \in Nat \ {0} /\ INDEX_MOD \in Nat
  /\ Settings \subseteq [enable : BOOLEAN, target : 0 .. INDEX_MOD - 1, width : Nat \ {0}]

\* A frame has less than 200 bits and a width 8 binary digits: far below bit_index.
ASSUME FrameFits == \A c \in Settings : MaxBits + c.width <= INDEX_MOD

VARIABLES
  rx_d0, rx_s, rx_p,                    \* synchronizer and edge detector
  in_frame, phase, bit_index, rec_run,  \* the tracker
  fd_d, frame_count, corrupt_count,     \* the counters
  cfg,                                  \* the registers
  t_on, t_bit, t_phase, t_index, t_run, \* the transmitter: sending, the bit, tick within it,
                                        \* its number, recessive bits up to it
  gap,                                  \* recessive ticks on the bus, at most IDLE_TH + 1
  \* history
  seen,      \* the tracker is to see this frame
  synced,    \* it has found the bus idle since the reset
  clean,     \* in a frame, synced when it began; no reset, clear or new setting since
  count0     \* <<frame_count, corrupt_count>> as the frame began, and as it was recognised

fpgaVars == <<rx_d0, rx_s, rx_p, in_frame, phase, bit_index, rec_run, fd_d, frame_count, corrupt_count>>
txVars   == <<t_on, t_bit, t_phase, t_index, t_run, gap, seen>>
vars == <<fpgaVars, cfg, txVars, synced, clean, count0>>

Init ==
  /\ rx_d0 = TRUE /\ rx_s = TRUE /\ rx_p = TRUE
  /\ in_frame = FALSE /\ phase = 0 /\ bit_index = 0 /\ rec_run = 0
  /\ fd_d = FALSE /\ frame_count = 0 /\ corrupt_count = 0
  /\ cfg \in Settings
  /\ t_on = FALSE /\ t_bit = TRUE /\ t_phase = 0 /\ t_index = 0 /\ t_run = 0 /\ gap = 0
  /\ seen = FALSE /\ synced = FALSE /\ clean = FALSE /\ count0 = <<0, 0>>

-----------------------------------------------------------------------------
(* The wires                                                               *)

WindowNoStart == bit_index < (cfg.target + cfg.width) % INDEX_MOD   \* Mutant: from bit 0 on.

WindowNoEnd == bit_index >= cfg.target   \* Mutant: to the end of the frame.

InWindow == bit_index >= cfg.target /\ bit_index < (cfg.target + cfg.width) % INDEX_MOD

force_dominant == cfg.enable /\ in_frame /\ InWindow

bus == t_bit /\ ~force_dominant

fall == rx_p /\ ~rx_s
idle == rec_run >= IDLE_TH

-----------------------------------------------------------------------------
(* frame_corrupt, one posedge                                              *)

Sync == rx_d0' = bus /\ rx_s' = rx_d0 /\ rx_p' = rx_s

RecRun == rec_run' = IF ~rx_s THEN 0 ELSE IF idle THEN rec_run ELSE rec_run + 1

SofAnyFall == ~in_frame /\ fall   \* Mutant: any falling edge starts a frame.

Sof == ~in_frame /\ fall /\ idle

NextPhase ==
  /\ phase' = (phase + 1) % TQ
  /\ bit_index' = IF phase = TQ - 1 THEN (bit_index + 1) % INDEX_MOD ELSE bit_index
  /\ UNCHANGED in_frame

Track ==
  \/ Sof /\ in_frame' = TRUE /\ phase' = 0 /\ bit_index' = 0
  \/ ~in_frame /\ ~Sof /\ UNCHANGED <<in_frame, phase, bit_index>>
  \/ in_frame /\ idle /\ in_frame' = FALSE /\ UNCHANGED <<phase, bit_index>>
  \/ in_frame /\ ~idle /\ NextPhase

CountLevel(clr) ==   \* Mutant: every clock of the window is counted.
  /\ fd_d' = force_dominant
  /\ frame_count' = IF Sof THEN (frame_count + 1) % COUNT_MOD ELSE IF clr THEN 0 ELSE frame_count
  /\ corrupt_count' = IF force_dominant THEN (corrupt_count + 1) % COUNT_MOD
                      ELSE IF clr THEN 0 ELSE corrupt_count

\* A count in the clock of a clear comes after it, and wins.
Count(clr) ==
  /\ fd_d' = force_dominant
  /\ frame_count' = IF Sof THEN (frame_count + 1) % COUNT_MOD ELSE IF clr THEN 0 ELSE frame_count
  /\ corrupt_count' = IF force_dominant /\ ~fd_d THEN (corrupt_count + 1) % COUNT_MOD
                      ELSE IF clr THEN 0 ELSE corrupt_count

-----------------------------------------------------------------------------
(* The transmitter, one tick                                               *)

Gap == gap' = IF ~bus THEN 0 ELSE IF gap <= IDLE_TH THEN gap + 1 ELSE gap

TxIdle == ~t_on /\ UNCHANGED <<t_on, t_bit, t_phase, t_index, t_run, seen>>

\* The tracker, while it is in a frame, finds the bus idle only one clock
\* before the first falling edge it may take for a start of frame.
TxSof ==
  /\ ~t_on /\ gap' >= IDLE_TH
  /\ t_on' = TRUE /\ t_bit' = FALSE /\ t_phase' = 0 /\ t_index' = 0 /\ t_run' = 0
  /\ seen' = (gap' > IDLE_TH \/ ~in_frame)

TxHold == t_on /\ t_phase < TQ - 1 /\ t_phase' = t_phase + 1
          /\ UNCHANGED <<t_on, t_bit, t_index, t_run, seen>>

\* Bit stuffing keeps a frame from looking idle.
TxNext(b) ==
  /\ t_on /\ t_phase = TQ - 1 /\ t_index + 1 < MaxBits /\ (b => t_run + 1 < IDLE_BITS)
  /\ t_bit' = b /\ t_phase' = 0 /\ t_index' = t_index + 1 /\ t_run' = IF b THEN t_run + 1 ELSE 0
  /\ UNCHANGED <<t_on, seen>>

TxEnd == t_on /\ t_phase = TQ - 1 /\ t_on' = FALSE /\ t_bit' = TRUE
         /\ t_phase' = 0 /\ t_index' = 0 /\ t_run' = 0 /\ seen' = FALSE

Transmit == TxIdle \/ TxSof \/ TxHold \/ (\E b \in BOOLEAN : TxNext(b)) \/ TxEnd

Begins == t_on' /\ ~t_on
Recognised == t_on /\ t_index = 0 /\ t_phase = 2

Tick(clr) ==
  /\ Sync /\ RecRun /\ Track /\ Count(clr) /\ Gap /\ Transmit
  /\ synced' = (synced \/ idle)
  /\ clean' = (~clr /\ t_on' /\ IF Begins THEN synced ELSE clean)
  /\ count0' = IF ~t_on' THEN <<0, 0>>
               ELSE <<IF Begins THEN frame_count ELSE count0[1],
                      IF Recognised THEN corrupt_count' ELSE count0[2]>>
  /\ UNCHANGED cfg

-----------------------------------------------------------------------------

Reset ==
  /\ in_frame' = FALSE /\ phase' = 0 /\ bit_index' = 0 /\ rec_run' = 0
  /\ fd_d' = FALSE /\ frame_count' = 0 /\ corrupt_count' = 0
  /\ Sync /\ Gap /\ Transmit
  /\ synced' = FALSE /\ clean' = FALSE /\ count0' = <<0, 0>> /\ UNCHANGED cfg

\* The host writes a register, between two posedges.
Configure(c) ==
  /\ c # cfg /\ cfg' = c /\ clean' = FALSE
  /\ UNCHANGED <<fpgaVars, txVars, synced, count0>>

Next == \/ \E clr \in BOOLEAN : Tick(clr)
        \/ Reset
        \/ \E c \in Settings : Configure(c)

Spec == Init /\ [][Next]_vars

\* The FPGA's clock runs.
FairSpec == Spec /\ WF_vars(Tick(FALSE))
-----------------------------------------------------------------------------
(* Properties                                                              *)

\* Every register keeps its width.
TypeOK ==
  /\ phase \in 0 .. TQ - 1 /\ bit_index \in 0 .. INDEX_MOD - 1 /\ rec_run \in 0 .. IDLE_TH
  /\ frame_count \in 0 .. COUNT_MOD - 1 /\ corrupt_count \in 0 .. COUNT_MOD - 1
  /\ cfg \in Settings /\ t_index \in 0 .. MaxBits - 1 /\ t_run \in 0 .. IDLE_BITS
  /\ {rx_d0, rx_s, rx_p, in_frame, fd_d, t_on, t_bit, seen, synced, clean} \subseteq BOOLEAN

\* From the fourth clock of a bit on the tracker is in that bit, three clocks
\* behind; it sees every frame but one that follows a frame it was in after no
\* more than the least gap, and that one it leaves alone to its end.
TracksFrame ==
  t_on /\ clean /\ (t_index > 0 \/ t_phase >= 3) =>
    IF seen
    THEN in_frame /\ bit_index * TQ + phase + 3 = t_index * TQ + t_phase
    ELSE ~in_frame

\* What is on the bus, at any sample point from the fourth clock of a bit on, is
\* the transmitter's bit, except for the armed bits: those are dominant.
ForcesArmedBits ==
  t_on /\ clean /\ t_phase >= 3 =>
    bus = (t_bit /\ ~(cfg.enable /\ seen /\ t_index \in cfg.target .. cfg.target + cfg.width - 1))

\* A frame that is seen counts once as a frame, and once as a corruption if the
\* armed bit has come; a frame that is not seen counts as neither.
CountsOnce ==
  LET begun == cfg.enable /\ t_index * TQ + t_phase >= cfg.target * TQ + 4
  IN t_on /\ clean /\ (t_index > 0 \/ t_phase >= 3) =>
       /\ frame_count = (count0[1] + IF seen THEN 1 ELSE 0) % COUNT_MOD
       /\ corrupt_count = (count0[2] + IF seen /\ begun THEN 1 ELSE 0) % COUNT_MOD

\* Once nobody transmits or re-arms, the corruptor lets the bus go for good,
\* though it hears its own dominant bits.  Bit IDLE_BITS is left out: there the
\* window can open two clocks before the bus is found idle; the frame ends, the
\* corruptor takes its own pulse for the next start of frame, and so on.
BusFreed ==
  <>[]~t_on /\ <>[][UNCHANGED cfg]_vars /\ <>[](cfg.target # IDLE_BITS)
    => <>[](bus /\ ~in_frame)

\* frame_corrupt.v:6: the core tracks the bit position from the start of every
\* frame; eleven recessive bits (:38) make the bus idle before it.
SeesEveryFrame == t_on /\ clean /\ (t_index > 0 \/ t_phase >= 3) => in_frame
=============================================================================

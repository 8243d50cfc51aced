-------------------------------- MODULE Rig --------------------------------
(***************************************************************************)
(* The bench a controller drives over two independent serial links:        *)
(*   - the combined injector bitstream (multi_inject_top) behind its       *)
(*     register port.  The port is RegLink with no reads: writes take      *)
(*     effect whole and in the order sent, some time after they are sent;  *)
(*   - the STM32 running main_multi.c: its one-byte USART receiver, the    *)
(*     command loop, the blue button, and the bus transaction of run_spi   *)
(*     and run_i2c, which ends in one RESULT line.                         *)
(* The controllers (Campaign, EspController) extend this module.           *)
(***************************************************************************)
EXTENDS Naturals, Sequences, FiniteSets

CONSTANTS
  FaultSet,   \* the faults a campaign can name
  Shows,      \* <<proto, a, b>> settings the firmware's transaction reports as a fault
  MaxPress    \* bound: presses of the STM32's button

Protocols == {"spi", "i2c", "can"}

\* a and b fit the registers they are written to: RegClient.arm truncates without a check.
ASSUME RigOK ==
  /\ \A f \in FaultSet :
       /\ f \in [proto : Protocols, a : Nat, b : Nat, expect : {"detected", "tolerated"}]
       /\ f.proto = "spi" => f.a < 65536 /\ f.b < 8
       /\ f.proto = "i2c" => f.a < 256 /\ f.b < 65536
       /\ f.proto = "can" => f.a < 65536 /\ f.b < 256
  /\ Shows \subseteq Protocols \X Nat \X Nat
  /\ MaxPress \in Nat

VARIABLES
  link,     \* register writes on their way to the FPGA, <<addr, data>>
  regs,     \* registers 0..4 of ctrl_regs
  wireIn,   \* bytes on their way to the STM32
  dr,       \* its one-byte receive register, <<>> when empty
  mode,     \* main(): the selected protocol
  phase,    \* "loop" in main(), "run" before and "struck" after the target slot of a transaction
  held,     \* in the button branch of main(), until release and debounce
  txn,      \* the transaction: who started it, what was injected, what it observed
  lines,    \* RESULT lines waiting at the controller
  alive,    \* the STM32 is powered and connected
  presses   \* button presses so far

fpgaVars == <<link, regs>>
dutVars  == <<wireIn, dr, mode, phase, held, txn, lines, alive, presses>>

-----------------------------------------------------------------------------
(* The injector behind its registers                                       *)

Key(f) == <<f.proto, f.a, f.b>>

Lo(n) == n % 256
Hi(n) == (n \div 256) % 256

\* Mutant: the enable is written before the parameters.
ArmEnableFirst(f) ==
  LET proto == CASE f.proto = "spi" -> 0 [] f.proto = "i2c" -> 1 [] OTHER -> 2
  IN << <<0, 1>>, <<4, proto>>, <<1, Lo(f.a)>>, <<2, Hi(f.a)>>, <<3, Lo(f.b)>> >>

\* RegClient.arm: the parameters, then the enable.
ArmWrites(f) ==
  CASE f.proto = "spi" -> << <<4, 0>>, <<3, Lo(f.b)>>, <<1, Lo(f.a)>>, <<2, Hi(f.a)>>, <<0, 1>> >>
    [] f.proto = "i2c" -> << <<4, 1>>, <<1, Lo(f.a)>>, <<2, Lo(f.b)>>, <<3, Hi(f.b)>>, <<0, 1>> >>
    [] f.proto = "can" -> << <<4, 2>>, <<1, Lo(f.a)>>, <<2, Hi(f.a)>>, <<3, Lo(f.b)>>, <<0, 1>> >>

DisarmWrite == <<0, 0>>

Enabled(r) == r[0] % 2 = 1

\* multi_inject_top: what the registers make it inject.  Protocol 2 and 3 select nothing.
Protocol(r) == r[4] % 4

Injecting(r) ==
  IF ~Enabled(r) THEN <<>>
  ELSE IF Protocol(r) = 0 THEN <<"spi", 256 * r[2] + r[1], r[3] % 8>>
  ELSE IF Protocol(r) = 1 THEN <<"i2c", r[1], 256 * r[3] + r[2]>>
  ELSE <<>>

\* What arming fault f is meant to make it inject; there is no CAN on this bitstream.
Wants(f) == IF f.proto = "can" THEN <<>> ELSE Key(f)

\* The FPGA takes the next write off its link.
Apply ==
  /\ link # <<>>
  /\ regs' = [regs EXCEPT ![Head(link)[1]] = Head(link)[2]]
  /\ link' = Tail(link)
  /\ UNCHANGED dutVars

-----------------------------------------------------------------------------
(* The STM32                                                               *)

\* The loop takes a byte long before the next one is complete; while it is away
\* from the loop, the second byte to arrive overruns the receiver and is lost.
ByteArrives ==
  /\ wireIn # <<>>
  /\ wireIn' = Tail(wireIn)
  /\ IF ~alive \/ (dr # <<>> /\ (held \/ phase # "loop")) THEN UNCHANGED dr
     ELSE dr = <<>> /\ dr' = <<Head(wireIn)>>
  /\ UNCHANGED <<fpgaVars, mode, phase, held, txn, lines, alive, presses>>

NoTxn == [by |-> 0, cfg |-> <<>>, obs |-> FALSE]

Start(by) == phase' = "run" /\ txn' = [NoTxn EXCEPT !.by = by]

ReadCommand ==
  /\ phase = "loop" /\ ~held /\ dr # <<>>
  /\ dr' = <<>>
  /\ mode' = CASE dr[1].c = "S" -> "spi" [] dr[1].c = "I" -> "i2c" [] OTHER -> mode
  /\ IF dr[1].c = "R" THEN Start(dr[1].by) ELSE UNCHANGED <<phase, txn>>
  /\ UNCHANGED <<fpgaVars, wireIn, held, lines, alive, presses>>

ButtonPress ==
  /\ alive /\ phase = "loop" /\ ~held /\ presses < MaxPress
  /\ presses' = presses + 1 /\ held' = TRUE
  /\ Start(0)
  /\ UNCHANGED <<fpgaVars, wireIn, dr, mode, lines, alive>>

\* The transaction reaches the slot where the injector acts, or would.
Strike ==
  /\ phase = "run" /\ phase' = "struck"
  /\ LET cfg == Injecting(regs) IN
       txn' = [txn EXCEPT !.cfg = cfg,
                          !.obs = cfg \in Shows /\ cfg[1] = mode]
  /\ UNCHANGED <<fpgaVars, wireIn, dr, mode, held, lines, alive, presses>>

Result ==
  /\ phase = "struck" /\ phase' = "loop"
  /\ lines' = Append(lines, txn) /\ txn' = NoTxn
  /\ UNCHANGED <<fpgaVars, wireIn, dr, mode, held, alive, presses>>

ButtonRelease ==
  /\ held /\ phase = "loop" /\ held' = FALSE
  /\ UNCHANGED <<fpgaVars, wireIn, dr, mode, phase, txn, lines, alive, presses>>

-----------------------------------------------------------------------------
(* The engine headers both controllers are built from                      *)

Keys == {Key(f) : f \in FaultSet}

\* Scheduler.next: the least covered pending fault, the earliest of them.
LeastCovered(faults, pending, cov, i) ==
  LET Count(j) == cov[Key(faults[j])] IN
  /\ i \in pending
  /\ \A j \in pending : Count(i) < Count(j) \/ (Count(i) = Count(j) /\ i <= j)

\* evaluate(): what the scenario requires of the DUT, against what it reported.
Evaluate(f, observed) == IF f.expect = "tolerated" THEN ~observed ELSE observed

ProtoCmd(p) == CASE p = "spi" -> "S" [] p = "i2c" -> "I" [] p = "can" -> "C"

\* SerialDutRunner.run sends {protocol, 'R'} in one go.
RunCmd(f, id) == << [c |-> ProtoCmd(f.proto), by |-> 0], [c |-> "R", by |-> id] >>

-----------------------------------------------------------------------------
RigInit ==
  /\ link = <<>> /\ regs = [r \in 0 .. 4 |-> 0]
  /\ wireIn = <<>> /\ dr = <<>> /\ mode = "spi" /\ phase = "loop" /\ held = FALSE
  /\ txn = NoTxn /\ lines = <<>> /\ alive \in BOOLEAN /\ presses = 0

RigNext == \/ Apply \/ ByteArrives \/ ReadCommand
           \/ ButtonPress \/ Strike \/ Result \/ ButtonRelease

\* The FPGA and the STM32 keep running; nobody has to press the button.
RigFairness == /\ WF_fpgaVars(Apply)
               /\ WF_dutVars(ByteArrives) /\ WF_dutVars(ReadCommand)
               /\ WF_dutVars(Strike) /\ WF_dutVars(Result) /\ WF_dutVars(ButtonRelease)

\* Nothing under way on the bench can still produce a RESULT line.
Silent == wireIn = <<>> /\ dr = <<>> /\ phase = "loop" /\ lines = <<>>
=============================================================================

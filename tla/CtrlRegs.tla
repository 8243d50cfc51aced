------------------------------ MODULE CtrlRegs ------------------------------
(***************************************************************************)
(* The register port at byte level: RegClient / arm.py on the host, the    *)
(* serial line, and the ctrl_regs state machine on the FPGA, which is the  *)
(* only thing between a host and an armed injector.                        *)
(*                                                                         *)
(* A command leaves the host as 2 or 3 bytes in one send(); cmds holds the *)
(* commands on the line and pos how many bytes of the first one have been  *)
(* received (or lost).  A step of the FPGA is one posedge of its clock at  *)
(* which something happens.  The line may lose a byte or make one up, at   *)
(* most MaxNoise times: the UART has no parity and uart_rx does not check  *)
(* the stop bit.                                                           *)
(***************************************************************************)
EXTENDS Naturals, Sequences

CONSTANTS
  NREGS,       \* registers in the file (8 in every top)
  Addrs,       \* addresses the host uses
  Payload,     \* data bytes the host writes
  StatusVals,  \* bytes the status page may hold
  NoiseBytes,  \* bytes the line can make up
  MaxCmds,     \* bound: commands on the line at once
  MaxNoise     \* bound: bytes lost or made up

Byte == 0 .. 255
CMD_W == 87    \* 'W'
CMD_R == 82    \* 'R'
STATUS_BASE == 128

ASSUME ConstantsOK ==
  /\ NREGS \in 1 .. 8
  /\ Addrs \subseteq Byte
  /\ Payload \subseteq Byte
  /\ StatusVals \subseteq Byte /\ StatusVals # {}
  /\ NoiseBytes \subseteq Byte
  /\ MaxCmds \in Nat
  /\ MaxNoise \in Nat

VARIABLES
  cmds, pos,   \* the line to the FPGA: commands, and bytes of the first one gone by
  state,       \* ctrl_regs: FSM state
  addr_l,      \* ctrl_regs: latched address
  regs,        \* ctrl_regs: register file
  wr,          \* ctrl_regs: wr_stb with wr_addr and wr_data, <<>> when low
  tx,          \* uart_tx: the byte being sent, <<>> when not busy
  txLate,      \* a byte has arrived since uart_tx started
  inbuf,       \* bytes waiting in the host's serial input
  rd,          \* host: <<addr>> while read() waits for its answer, else <<>>
  rdval,       \* host: <<addr, byte>> returned by the last read(), <<>> before and after a write
  noise,       \* bytes lost or made up so far
  (* history *)
  want,        \* the file as the host wrote it
  dirty        \* commands that must still go by before the FSM is known to be in step

lineVars == <<cmds, pos>>
fsmVars  == <<state, addr_l, regs, wr>>
hostVars == <<rd, rdval, want>>
vars == <<lineVars, fsmVars, tx, txLate, inbuf, hostVars, noise, dirty>>

Reg == 0 .. NREGS - 1
Cmd == [op : {"W"}, addr : Addrs, data : Payload] \cup [op : {"R"}, addr : Addrs]
States == {"S_IDLE", "S_W_ADDR", "S_W_DATA", "S_R_ADDR", "S_R_SEND"}

Encode(c) == IF c.op = "W" THEN <<CMD_W, c.addr, c.data>> ELSE <<CMD_R, c.addr>>

\* Mutant: the bound on the register address is one short.
ReadRegShort(a) == IF a >= STATUS_BASE THEN StatusVals
                   ELSE IF a < NREGS - 1 THEN {regs[a]} ELSE {0}

\* read_reg: the status page from 0x80 up, a register, or 0.
ReadReg(a) == IF a >= STATUS_BASE THEN StatusVals
              ELSE IF a < NREGS THEN {regs[a]} ELSE {0}

Init ==
  /\ cmds = <<>> /\ pos = 0
  /\ state = "S_IDLE" /\ addr_l = 0
  /\ regs = [r \in Reg |-> 0] /\ wr = <<>>
  /\ tx = <<>> /\ txLate = FALSE /\ inbuf = <<>>
  /\ rd = <<>> /\ rdval = <<>> /\ noise = 0
  /\ want = [r \in Reg |-> 0] /\ dirty = 0

-----------------------------------------------------------------------------
(* Host: RegClient, arm.py                                                 *)

\* write(): three bytes, no acknowledgement awaited.
HostWrite(a, d) ==
  /\ rd = <<>> /\ Len(cmds) < MaxCmds
  /\ cmds' = Append(cmds, [op |-> "W", addr |-> a, data |-> d])
  /\ want' = IF a < NREGS THEN [want EXCEPT ![a] = d] ELSE want
  /\ rdval' = <<>>
  /\ UNCHANGED <<pos, fsmVars, tx, txLate, inbuf, rd, noise, dirty>>

\* read(): two bytes, then blocks in recv().
HostRead(a) ==
  /\ rd = <<>> /\ Len(cmds) < MaxCmds
  /\ cmds' = Append(cmds, [op |-> "R", addr |-> a])
  /\ rd' = <<a>> /\ rdval' = <<>>
  /\ UNCHANGED <<pos, fsmVars, tx, txLate, inbuf, want, noise, dirty>>

HostRecv ==
  /\ rd # <<>> /\ inbuf # <<>>
  /\ rdval' = <<rd[1], Head(inbuf)>>
  /\ inbuf' = Tail(inbuf) /\ rd' = <<>>
  /\ UNCHANGED <<lineVars, fsmVars, tx, txLate, want, noise, dirty>>

\* recv() gives up after 0.5 s, some thousand byte times: only when nothing that
\* is still under way can answer.  read() then returns 0.
HostTimeout ==
  /\ rd # <<>> /\ cmds = <<>> /\ state # "S_R_SEND" /\ tx = <<>> /\ inbuf = <<>>
  /\ rdval' = <<rd[1], 0>> /\ rd' = <<>>
  /\ UNCHANGED <<lineVars, fsmVars, tx, txLate, inbuf, want, noise, dirty>>

-----------------------------------------------------------------------------
(* ctrl_regs: one posedge with rx_valid and rx_data = b.  wr_stb is low    *)
(* after every posedge that does not set it.                               *)

\* Mutant: every byte but 'W' is taken for a read command.
IdleTakesAnything(b) ==
  /\ state = "S_IDLE"
  /\ state' = IF b = CMD_W THEN "S_W_ADDR" ELSE "S_R_ADDR"
  /\ wr' = <<>>
  /\ UNCHANGED <<addr_l, regs>>

S_IDLE(b) ==
  /\ state = "S_IDLE"
  /\ state' = CASE b = CMD_W -> "S_W_ADDR"
                [] b = CMD_R -> "S_R_ADDR"
                [] OTHER     -> "S_IDLE"
  /\ wr' = <<>>
  /\ UNCHANGED <<addr_l, regs>>

S_W_ADDR(b) ==
  /\ state = "S_W_ADDR"
  /\ addr_l' = b /\ state' = "S_W_DATA" /\ wr' = <<>>
  /\ UNCHANGED regs

\* Mutants: the write covers the next register's byte too ...
WideWrite(b) ==
  /\ state = "S_W_DATA"
  /\ regs' = IF addr_l < NREGS THEN [regs EXCEPT ![addr_l] = 256 * addr_l + b] ELSE regs
  /\ wr' = <<addr_l, b>> /\ state' = "S_IDLE" /\ UNCHANGED addr_l

\* ... 'W' restarts the command even where data is expected ...
ResyncOnW(b) ==
  /\ state = "S_W_DATA"
  /\ IF b = CMD_W
     THEN state' = "S_W_ADDR" /\ wr' = <<>> /\ UNCHANGED regs
     ELSE /\ regs' = IF addr_l < NREGS THEN [regs EXCEPT ![addr_l] = b] ELSE regs
          /\ wr' = <<addr_l, b>> /\ state' = "S_IDLE"
  /\ UNCHANGED addr_l

\* ... no strobe for an address outside the file ...
StrobeOnlyInFile(b) ==
  /\ state = "S_W_DATA"
  /\ regs' = IF addr_l < NREGS THEN [regs EXCEPT ![addr_l] = b] ELSE regs
  /\ wr' = IF addr_l < NREGS THEN <<addr_l, b>> ELSE <<>>
  /\ state' = "S_IDLE" /\ UNCHANGED addr_l

S_W_DATA(b) ==
  /\ state = "S_W_DATA"
  /\ regs' = IF addr_l < NREGS THEN [regs EXCEPT ![addr_l] = b] ELSE regs
  /\ wr' = <<addr_l, b>>
  /\ state' = "S_IDLE"
  /\ UNCHANGED addr_l

S_R_ADDR(b) ==
  /\ state = "S_R_ADDR"
  /\ addr_l' = b /\ state' = "S_R_SEND" /\ wr' = <<>>
  /\ UNCHANGED regs

\* S_R_SEND does not look at rx_valid: the byte is dropped.  While the
\* transmitter is free the state lasts one clock, less than a byte time.
S_R_SEND_Rx(b) ==
  /\ state = "S_R_SEND" /\ tx # <<>>
  /\ wr' = <<>>
  /\ UNCHANGED <<state, addr_l, regs>>

\* uart_tx needs one frame and two clocks for the answer, so it may still be
\* busy when the next byte is complete, never at the one after.
Rx(b) ==
  /\ tx # <<>> => ~txLate
  /\ txLate' = (tx # <<>>)
  /\ \/ S_IDLE(b) \/ S_W_ADDR(b) \/ S_W_DATA(b) \/ S_R_ADDR(b) \/ S_R_SEND_Rx(b)
  /\ UNCHANGED <<tx, inbuf, hostVars>>

\* Mutants: tx_busy tested with the wrong polarity; back to S_R_ADDR for the
\* address of another read.
SendWhenBusy ==
  /\ state = "S_R_SEND" /\ tx # <<>>
  /\ \E v \in ReadReg(addr_l) : tx' = <<v>>
  /\ txLate' = FALSE /\ state' = "S_IDLE" /\ wr' = <<>>
  /\ UNCHANGED <<lineVars, addr_l, regs, inbuf, hostVars, noise, dirty>>

BurstRead ==
  /\ state = "S_R_SEND" /\ tx = <<>>
  /\ \E v \in ReadReg(addr_l) : tx' = <<v>>
  /\ txLate' = FALSE /\ state' = "S_R_ADDR" /\ wr' = <<>>
  /\ UNCHANGED <<lineVars, addr_l, regs, inbuf, hostVars, noise, dirty>>

\* S_R_SEND with the transmitter free: tx_start, and uart_tx goes busy.
S_R_SEND ==
  /\ state = "S_R_SEND" /\ tx = <<>>
  /\ \E v \in ReadReg(addr_l) : tx' = <<v>>
  /\ txLate' = FALSE
  /\ state' = "S_IDLE" /\ wr' = <<>>
  /\ UNCHANGED <<lineVars, addr_l, regs, inbuf, hostVars, noise, dirty>>

\* A posedge without rx_valid ends the strobe.
ClearStrobe ==
  /\ wr # <<>> /\ state # "S_R_SEND"
  /\ wr' = <<>>
  /\ UNCHANGED <<lineVars, state, addr_l, regs, tx, txLate, inbuf, hostVars, noise, dirty>>

TxDone ==
  /\ tx # <<>>
  /\ inbuf' = inbuf \o tx /\ tx' = <<>> /\ txLate' = FALSE
  /\ UNCHANGED <<lineVars, fsmVars, hostVars, noise, dirty>>

-----------------------------------------------------------------------------
(* The line                                                                *)

LastByte == pos = IF Head(cmds).op = "W" THEN 2 ELSE 1

\* The next byte of the first command leaves the line.
Advance ==
  /\ cmds # <<>>
  /\ pos'  = IF LastByte THEN 0 ELSE pos + 1
  /\ cmds' = IF LastByte THEN Tail(cmds) ELSE cmds

Deliver ==
  /\ Advance
  /\ Rx(Encode(Head(cmds))[pos + 1])
  /\ dirty' = IF LastByte /\ dirty > 0 THEN dirty - 1 ELSE dirty
  /\ UNCHANGED noise

\* After a fault on the line the FSM must be in step again once one whole
\* command has gone by after the one that was hit.
Disturbed == /\ noise < MaxNoise /\ noise' = noise + 1
             /\ dirty' = IF pos' = 0 THEN 1 ELSE 2

LoseByte ==
  /\ Advance /\ Disturbed
  /\ UNCHANGED <<fsmVars, tx, txLate, inbuf, hostVars>>

SpuriousByte(b) ==
  /\ UNCHANGED lineVars /\ Disturbed
  /\ Rx(b)

-----------------------------------------------------------------------------
Next ==
  \/ \E a \in Addrs : HostRead(a) \/ \E d \in Payload : HostWrite(a, d)
  \/ HostRecv \/ HostTimeout
  \/ Deliver \/ LoseByte \/ \E b \in NoiseBytes : SpuriousByte(b)
  \/ S_R_SEND \/ ClearStrobe \/ TxDone

Spec == Init /\ [][Next]_vars

\* A quiet line: no byte is lost or made up, and no answer is late, so that read() does
\* not run into its time limit.  Bytes on the line arrive, the FPGA's clock runs, and the
\* host's blocking read() returns when there is a byte.
QuietNext ==
  \/ \E a \in Addrs : HostRead(a) \/ \E d \in Payload : HostWrite(a, d)
  \/ HostRecv \/ Deliver \/ S_R_SEND \/ ClearStrobe \/ TxDone

QuietSpec == Init /\ [][QuietNext]_vars /\ WF_vars(Deliver) /\ WF_vars(S_R_SEND)
                  /\ WF_vars(TxDone) /\ WF_vars(HostRecv)
-----------------------------------------------------------------------------
(* Properties                                                              *)

\* Type invariant of the register port.
TypeOK ==
  /\ cmds \in Seq(Cmd) /\ pos \in 0 .. 2
  /\ state \in States /\ addr_l \in Byte
  /\ regs \in [Reg -> Byte]
  /\ wr \in {<<>>} \cup (Byte \X Byte)
  /\ tx \in {<<>>} \cup {<<b>> : b \in Byte} /\ txLate \in BOOLEAN
  /\ inbuf \in Seq(Byte)
  /\ rd \in {<<>>} \cup {<<a>> : a \in Addrs}
  /\ rdval \in {<<>>} \cup (Addrs \X Byte)
  /\ noise \in 0 .. MaxNoise
  /\ want \in [Reg -> Byte] /\ dirty \in 0 .. 2

\* The FSM and the sender agree on how far into the first command they are,
\* except while a disturbed command goes by: a byte lost or made up on the line
\* costs at most the command it hits and the next one, provided no address and
\* no data byte is itself 'W' or 'R' (ctrl_regs has no timeout to fall back on).
InStep ==
  dirty = 0 =>
    \/ pos = 0 /\ state \in {"S_IDLE", "S_R_SEND"}
    \/ /\ pos = 1 /\ cmds # <<>>
       /\ state = IF Head(cmds).op = "W" THEN "S_W_ADDR" ELSE "S_R_ADDR"
    \/ /\ pos = 2 /\ cmds # <<>> /\ Head(cmds).op = "W"
       /\ state = "S_W_DATA" /\ addr_l = Head(cmds).addr /\ wr = <<>>

\* While in step a register changes only to the data of the write command that
\* names it, at the arrival of its last byte.
CleanWritesLand ==
  [][dirty = 0 /\ dirty' = 0 /\ regs' # regs =>
       /\ Head(cmds).op = "W" /\ cmds' = Tail(cmds)
       /\ regs' = [regs EXCEPT ![Head(cmds).addr] = Head(cmds).data]]_vars

\* The transmitter is free whenever the FSM wants to answer, so S_R_SEND, the
\* state that ignores rx_valid, never swallows a byte of the next command.
AnswerNeverWaits == state = "S_R_SEND" => tx = <<>>

\* Once the line is quiet the registers are what the host wrote, in order, last
\* write first: what RegClient::arm relies on without reading anything back.
Settled == noise = 0 /\ cmds = <<>> => regs = want

\* read() returns what the host last wrote to that register: never the answer
\* to an earlier read, never the 0 of a timeout.
ReadYourWrites ==
  noise = 0 /\ rdval # <<>> =>
    IF rdval[1] >= STATUS_BASE THEN rdval[2] \in StatusVals
    ELSE rdval[2] = IF rdval[1] < NREGS THEN want[rdval[1]] ELSE 0

\* Every read() on a quiet line is answered: the device never leaves the host to its timeout.
ReadReturns == (rd # <<>>) ~> (rd = <<>>)

\* The commands not yet carried out, as RegLink counts them: a read is carried
\* out when it is answered.
pendingCmds == IF state = "S_R_SEND"
               THEN <<[op |-> "R", addr |-> addr_l]>> \o cmds ELSE cmds

RL == INSTANCE RegLink WITH cmds <- pendingCmds, back <- inbuf \o tx

\* On an undisturbed line the byte protocol implements RegLink.
ImplementsRegLink == RL!Spec
=============================================================================

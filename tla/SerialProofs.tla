--------------------------- MODULE SerialProofs ----------------------------
(***************************************************************************)
(* Theorems about the serial line, from its bytes down to its bits: about  *)
(* the register port, for every size of the file, every set of addresses   *)
(* and data bytes and any number of commands on the line; about arm.py on  *)
(* it, for every set of command lines and wherever its programs are        *)
(* stopped; and about the UART and the echo under it, for every bit length *)
(* and every host whose clock is close enough (TimingOK).                  *)
(***************************************************************************)
EXTENDS ArmCli, UartEcho, SequenceTheorems, TLAPS

\* The line never stands beyond the end of the command it is sending.
PosOK == /\ pos # 0 => cmds # <<>>
         /\ pos = 2 => Head(cmds).op = "W"

LEMMA ByteNat == 0 \in Byte /\ \A b \in Byte : b \in Nat
  BY DEF Byte

LEMMA EncodeOf ==
  ASSUME NEW c \in Cmd
  PROVE  /\ c.op \in {"W", "R"} /\ c.addr \in Byte
         /\ c.op = "W" => /\ c.data \in Byte
                          /\ Encode(c) = <<87, c.addr, c.data>>
         /\ c.op = "R" => Encode(c) = <<82, c.addr>>
  BY ConstantsOK DEF ConstantsOK, Cmd, Encode, CMD_W, CMD_R

\* What a received byte can do to the FSM.
LEMMA RxTypes ==
  ASSUME TypeOK, NEW b \in Byte, Rx(b)
  PROVE  /\ state' \in States /\ addr_l' \in Byte /\ regs' \in [Reg -> Byte]
         /\ wr' \in {<<>>} \cup (Byte \X Byte)
         /\ txLate' \in BOOLEAN
         /\ UNCHANGED <<tx, inbuf, rd, rdval, want>>
<1> USE DEF TypeOK, States
<1>1. txLate' \in BOOLEAN /\ UNCHANGED <<tx, inbuf, rd, rdval, want>>
  BY DEF Rx, hostVars
<1>2. CASE S_IDLE(b)
  BY <1>1, <1>2 DEF S_IDLE
<1>3. CASE S_W_ADDR(b)
  BY <1>1, <1>3 DEF S_W_ADDR
<1>4. CASE S_W_DATA(b)
  BY <1>1, <1>4 DEF S_W_DATA
<1>5. CASE S_R_ADDR(b)
  BY <1>1, <1>5 DEF S_R_ADDR
<1>6. CASE S_R_SEND_Rx(b)
  BY <1>1, <1>6 DEF S_R_SEND_Rx
<1>7. QED
  BY <1>2, <1>3, <1>4, <1>5, <1>6 DEF Rx

\* The line moves by one byte.
LEMMA AdvanceTypes ==
  ASSUME TypeOK, PosOK, Advance
  PROVE  /\ Encode(Head(cmds))[pos + 1] \in Byte
         /\ cmds' \in Seq(Cmd) /\ pos' \in 0 .. 2 /\ PosOK'
<1>1. Head(cmds) \in Cmd /\ Tail(cmds) \in Seq(Cmd) /\ cmds # <<>> /\ pos \in 0 .. 2
  BY DEF Advance, TypeOK
<1>2. CASE Head(cmds).op = "W"
  <2>1. Encode(Head(cmds)) = <<87, Head(cmds).addr, Head(cmds).data>>
        /\ Head(cmds).addr \in Byte /\ Head(cmds).data \in Byte
    BY <1>1, <1>2, EncodeOf
  <2>2. pos + 1 = 1 \/ pos + 1 = 2 \/ pos + 1 = 3
    BY <1>1
  <2>3. Encode(Head(cmds))[pos + 1] \in Byte
    BY <2>1, <2>2 DEF Byte
  <2>4. LastByte <=> pos = 2
    BY <1>2 DEF LastByte
  <2>5. cmds' \in Seq(Cmd) /\ pos' \in 0 .. 2 /\ (pos' # 0 => cmds' = cmds)
    <3>1. CASE pos = 2
      BY <1>1, <2>4, <3>1 DEF Advance
    <3>2. CASE pos \in 0 .. 1
      BY <1>1, <2>4, <3>2 DEF Advance, TypeOK
    <3>3. QED
      BY <1>1, <3>1, <3>2
  <2>6. PosOK'
    BY <1>1, <1>2, <2>5 DEF PosOK
  <2>7. QED
    BY <2>3, <2>5, <2>6
<1>3. CASE Head(cmds).op = "R"
  <2>1. Encode(Head(cmds)) = <<82, Head(cmds).addr>>
        /\ Head(cmds).addr \in Byte
    BY <1>1, <1>3, EncodeOf
  <2>2. pos \in 0 .. 1
    BY <1>1, <1>3 DEF PosOK
  <2>3. pos + 1 = 1 \/ pos + 1 = 2
    BY <2>2
  <2>4. Encode(Head(cmds))[pos + 1] \in Byte
    BY <2>1, <2>3 DEF Byte
  <2>5. LastByte <=> pos = 1
    BY <1>3 DEF LastByte
  <2>6. cmds' \in Seq(Cmd) /\ pos' \in 0 .. 1 /\ (pos' # 0 => cmds' = cmds)
    BY <1>1, <2>2, <2>5 DEF Advance, TypeOK
  <2>7. QED
    BY <1>1, <2>4, <2>6 DEF PosOK
<1>4. QED
  BY <1>1, <1>2, <1>3, EncodeOf

\* A step keeps the types: bytes stay bytes, the FSM, the file and the counters in range.
LEMMA TypeStep ==
  ASSUME TypeOK, PosOK, [Next]_vars
  PROVE  TypeOK' /\ PosOK'
<1> USE ConstantsOK DEF ConstantsOK
<1>1. ASSUME NEW a \in Addrs, HostRead(a) PROVE TypeOK' /\ PosOK'
  <2>1. cmds' \in Seq(Cmd) /\ (cmds # <<>> => Head(cmds') = Head(cmds)) /\ cmds' # <<>>
    BY <1>1 DEF HostRead, TypeOK, Cmd
  <2>2. QED
    BY <1>1, <2>1 DEF HostRead, TypeOK, PosOK, fsmVars
<1>2. ASSUME NEW a \in Addrs, NEW d \in Payload, HostWrite(a, d) PROVE TypeOK' /\ PosOK'
  <2>1. cmds' \in Seq(Cmd) /\ (cmds # <<>> => Head(cmds') = Head(cmds)) /\ cmds' # <<>>
    BY <1>2 DEF HostWrite, TypeOK, Cmd
  <2>2. want' \in [Reg -> Byte]
    BY <1>2 DEF HostWrite, TypeOK
  <2>3. QED
    BY <1>2, <2>1, <2>2 DEF HostWrite, TypeOK, PosOK, fsmVars
<1>3. CASE HostRecv
  BY <1>3 DEF HostRecv, TypeOK, PosOK, fsmVars, lineVars
<1>4. CASE HostTimeout
  <2>1. PICK a \in Addrs : rd = <<a>>
    BY <1>4 DEF HostTimeout, TypeOK
  <2>2. rdval' = <<a, 0>> /\ 0 \in Byte /\ rd' = <<>>
    BY <1>4, <2>1 DEF HostTimeout, Byte
  <2>3. QED
    BY <1>4, <2>2 DEF HostTimeout, TypeOK, PosOK, fsmVars, lineVars
<1>5. CASE Deliver
  <2>1. /\ Encode(Head(cmds))[pos + 1] \in Byte
        /\ cmds' \in Seq(Cmd) /\ pos' \in 0 .. 2 /\ PosOK'
    BY <1>5, AdvanceTypes DEF Deliver
  <2>2. dirty' \in 0 .. 2 /\ UNCHANGED noise
    BY <1>5 DEF Deliver, TypeOK
  <2>3. QED
    BY <1>5, <2>1, <2>2, RxTypes DEF Deliver, TypeOK
<1>6. CASE LoseByte
  BY <1>6, AdvanceTypes DEF LoseByte, Disturbed, TypeOK, fsmVars, hostVars
<1>7. ASSUME NEW b \in NoiseBytes, SpuriousByte(b) PROVE TypeOK' /\ PosOK'
  <2>1. b \in Byte /\ UNCHANGED <<cmds, pos>>
    BY <1>7 DEF SpuriousByte, lineVars
  <2>2. dirty' \in 0 .. 2 /\ noise' \in 0 .. MaxNoise
    BY <1>7 DEF SpuriousByte, Disturbed, TypeOK
  <2>3. QED
    BY <1>7, <2>1, <2>2, RxTypes DEF SpuriousByte, TypeOK, PosOK
<1>8. CASE S_R_SEND
  <2>1. \A v \in ReadReg(addr_l) : v \in Byte
    <3>1. StatusVals \subseteq Byte /\ 0 \in Byte
      BY ByteNat
    <3>2. addr_l < NREGS => addr_l \in Reg /\ regs[addr_l] \in Byte
      BY ByteNat DEF TypeOK, Reg
    <3>3. QED
      BY <3>1, <3>2 DEF ReadReg
  <2>2. QED
    BY <1>8, <2>1 DEF S_R_SEND, TypeOK, PosOK, lineVars, hostVars, States
<1>9. CASE ClearStrobe
  BY <1>9 DEF ClearStrobe, TypeOK, PosOK, lineVars, hostVars
<1>10. CASE TxDone
  <2>1. PICK b \in Byte : tx = <<b>>
    BY <1>10 DEF TxDone, TypeOK
  <2>2. inbuf \in Seq(Byte) /\ inbuf' = inbuf \o <<b>>
    BY <1>10, <2>1 DEF TxDone, TypeOK
  <2>3. inbuf' \in Seq(Byte)
    BY <2>2
  <2>4. QED
    BY <1>10, <2>3 DEF TxDone, TypeOK, PosOK, lineVars, fsmVars, hostVars
<1>11. CASE UNCHANGED vars
  BY <1>11 DEF TypeOK, PosOK, vars, lineVars, fsmVars, hostVars
<1>q. QED
  BY <1>1, <1>2, <1>3, <1>4, <1>5, <1>6, <1>7, <1>8, <1>9, <1>10, <1>11 DEF Next

\* ByteNat on the line are bytes, and the FSM, the file and the counters stay in range.
LEMMA TypeInit ==
  ASSUME Init
  PROVE  TypeOK /\ PosOK
<1> USE ConstantsOK DEF ConstantsOK
<1>1. cmds \in Seq(Cmd) /\ inbuf \in Seq(Byte)
  BY DEF Init
<1>2. regs \in [Reg -> Byte] /\ want \in [Reg -> Byte]
  BY DEF Init, Reg, Byte
<1>3. /\ pos \in 0 .. 2 /\ state \in States /\ addr_l \in Byte
      /\ noise \in 0 .. MaxNoise /\ dirty \in 0 .. 2
  BY ByteNat DEF Init, States
<1>4. /\ wr = <<>> /\ tx = <<>> /\ rd = <<>> /\ rdval = <<>> /\ pos = 0
      /\ txLate \in BOOLEAN
  BY Zenon DEF Init
<1>5. QED
  BY <1>1, <1>2, <1>3, <1>4 DEF TypeOK, PosOK

LEMMA Typing == Spec => [](TypeOK /\ PosOK)
<1>1. Init => TypeOK /\ PosOK
  BY TypeInit
<1>2. TypeOK /\ PosOK /\ [Next]_vars => TypeOK' /\ PosOK'
  BY TypeStep
<1>3. QED
  BY <1>1, <1>2, PTL DEF Spec

\* The register port keeps its type.
THEOREM TypeCorrect == Spec => []TypeOK
  BY Typing, PTL

-----------------------------------------------------------------------------
(* Staying in step.  The line may disturb a command; what follows must not *)
(* be disturbed for long.                                                  *)

\* Why an answer never waits: between two answers at least two bytes arrive,
\* and the first is over by the second of them.
TxInv == tx # <<>> => state = "S_IDLE" \/ (state # "S_R_SEND" /\ txLate)

\* No address and no data byte looks like the start of a command.
NoCodes == \A b \in Addrs \cup Payload : b # CMD_W /\ b # CMD_R

\* Where the FSM can be while the command after a disturbed one goes by.
Resyncing ==
  /\ pos = 1 => state \in {"S_IDLE", "S_W_DATA", "S_R_SEND"} \cup
                  (IF Head(cmds).op = "W" THEN {"S_W_ADDR"} ELSE {"S_R_ADDR"})
  /\ pos = 2 => state \in {"S_IDLE", "S_W_DATA", "S_R_SEND"}

StepInv == /\ state \in {"S_W_DATA", "S_R_SEND"} => wr = <<>>
           /\ InStep
           /\ dirty = 1 => Resyncing
           /\ dirty = 2 => pos # 0
           /\ noise = 0 => dirty = 0

LEMMA TxIsSeq == TypeOK => tx \in Seq(Byte) /\ inbuf \in Seq(Byte)
<1>1. \A b \in Byte : <<b>> \in Seq(Byte)
  OBVIOUS
<1>2. <<>> \in Seq(Byte)
  OBVIOUS
<1>3. QED
  BY <1>1, <1>2 DEF TypeOK

\* The first command on the line stays put while the host adds others.
LEMMA HeadKept ==
  ASSUME TypeOK, NEW c \in Cmd, cmds' = Append(cmds, c)
  PROVE  cmds' # <<>> /\ (cmds # <<>> => Head(cmds') = Head(cmds))
  BY DEF TypeOK

LEMMA PortTxStep ==
  ASSUME TxInv, [Next]_vars
  PROVE  TxInv'
<1> USE DEF TxInv
<1>rx. ASSUME NEW b, Rx(b) PROVE TxInv'
  BY <1>rx DEF Rx, S_IDLE, S_W_ADDR, S_W_DATA, S_R_ADDR, S_R_SEND_Rx
<1>1. ASSUME NEW a \in Addrs, HostRead(a) PROVE TxInv'
  BY <1>1 DEF HostRead, fsmVars
<1>2. ASSUME NEW a \in Addrs, NEW d \in Payload, HostWrite(a, d) PROVE TxInv'
  BY <1>2 DEF HostWrite, fsmVars
<1>3. CASE HostRecv \/ HostTimeout
  BY <1>3 DEF HostRecv, HostTimeout, fsmVars
<1>4. CASE Deliver
  BY <1>4, <1>rx DEF Deliver
<1>5. CASE LoseByte
  BY <1>5 DEF LoseByte, fsmVars
<1>6. ASSUME NEW b \in NoiseBytes, SpuriousByte(b) PROVE TxInv'
  BY <1>6, <1>rx DEF SpuriousByte
<1>7. CASE S_R_SEND \/ ClearStrobe \/ TxDone
  BY <1>7 DEF S_R_SEND, ClearStrobe, TxDone, fsmVars
<1>8. CASE UNCHANGED vars
  BY <1>8 DEF vars, fsmVars
<1>q. QED
  BY <1>1, <1>2, <1>3, <1>4, <1>5, <1>6, <1>7, <1>8 DEF Next

LEMMA TxInvariant == Spec => []TxInv
<1>1. Init => TxInv
  BY DEF Init, TxInv
<1>2. TxInv /\ [Next]_vars => TxInv'
  BY PortTxStep
<1>3. QED
  BY <1>1, <1>2, PTL DEF Spec

\* The transmitter is free whenever the FSM is in S_R_SEND, the one state that
\* ignores rx_valid (ctrl_regs.v:94), on any line.
THEOREM AnswerTheorem == Spec => []AnswerNeverWaits
<1>1. TxInv => AnswerNeverWaits
  BY DEF TxInv, AnswerNeverWaits
<1>2. QED
  BY <1>1, TxInvariant, PTL

\* One byte of the first command reaches the FSM: which byte, and what it does.
LEMMA DeliverFacts ==
  ASSUME TypeOK, PosOK, TxInv, Deliver
  PROVE  /\ Head(cmds) \in Cmd /\ cmds # <<>>
         /\ pos' = IF LastByte THEN 0 ELSE pos + 1
         /\ cmds' = IF LastByte THEN Tail(cmds) ELSE cmds
         /\ dirty' = IF LastByte /\ dirty > 0 THEN dirty - 1 ELSE dirty
         /\ \E b \in Byte :
              /\ pos = 0 => b = IF Head(cmds).op = "W" THEN CMD_W ELSE CMD_R
              /\ pos = 1 => b = Head(cmds).addr
              /\ pos = 2 => b = Head(cmds).data
              /\ S_IDLE(b) \/ S_W_ADDR(b) \/ S_W_DATA(b) \/ S_R_ADDR(b)
<1> DEFINE b == Encode(Head(cmds))[pos + 1]
<1>1. Head(cmds) \in Cmd /\ cmds # <<>> /\ pos \in 0 .. 2
  BY DEF Deliver, Advance, TypeOK
<1>2. b \in Byte
  BY AdvanceTypes DEF Deliver
<1>3. /\ pos = 0 => b = IF Head(cmds).op = "W" THEN CMD_W ELSE CMD_R
      /\ pos = 1 => b = Head(cmds).addr
      /\ pos = 2 => b = Head(cmds).data
  <2>1. CASE Head(cmds).op = "W"
    <3>1. Encode(Head(cmds)) = <<87, Head(cmds).addr, Head(cmds).data>>
      BY <1>1, <2>1, EncodeOf
    <3>2. QED
      BY <2>1, <3>1 DEF CMD_W
  <2>2. CASE Head(cmds).op = "R"
    <3>1. Encode(Head(cmds)) = <<82, Head(cmds).addr>>
      BY <1>1, <2>2, EncodeOf
    <3>2. pos # 2
      BY <2>2 DEF PosOK
    <3>3. QED
      BY <2>2, <3>1, <3>2 DEF CMD_R
  <2>3. QED
    BY <1>1, <2>1, <2>2, EncodeOf
<1>4. S_IDLE(b) \/ S_W_ADDR(b) \/ S_W_DATA(b) \/ S_R_ADDR(b)
  BY DEF Deliver, Rx, TxInv, S_R_SEND_Rx
<1>5. QED
  BY <1>1, <1>2, <1>3, <1>4 DEF Deliver, Advance

LEMMA DeliverInStep ==
  ASSUME TypeOK, PosOK, TxInv, StepInv, NoCodes \/ noise = 0, Deliver
  PROVE  StepInv'
<1> DEFINE h == Head(cmds)
<1>1. PICK b \in Byte :
        /\ pos = 0 => b = IF h.op = "W" THEN CMD_W ELSE CMD_R
        /\ pos = 1 => b = h.addr
        /\ pos = 2 => b = h.data
        /\ S_IDLE(b) \/ S_W_ADDR(b) \/ S_W_DATA(b) \/ S_R_ADDR(b)
  BY DeliverFacts
<1>2. /\ h \in Cmd /\ h.op \in {"W", "R"} /\ cmds # <<>>
      /\ h.addr \in Addrs /\ (h.op = "W" => h.data \in Payload)
      /\ pos \in 0 .. 2 /\ dirty \in 0 .. 2 /\ (pos = 2 => h.op = "W")
  BY DeliverFacts DEF Cmd, TypeOK, PosOK
<1>3. /\ pos' = IF LastByte THEN 0 ELSE pos + 1
      /\ cmds' = IF LastByte THEN Tail(cmds) ELSE cmds
      /\ dirty' = IF LastByte /\ dirty > 0 THEN dirty - 1 ELSE dirty
  BY DeliverFacts
<1>4. LastByte <=> (h.op = "R" /\ pos = 1) \/ (h.op = "W" /\ pos = 2)
  BY <1>2 DEF LastByte
<1>5. state' \in {"S_W_DATA", "S_R_SEND"} => wr' = <<>>
  BY <1>1 DEF S_IDLE, S_W_ADDR, S_W_DATA, S_R_ADDR
<1>6. noise' = 0 => dirty' = 0
  BY <1>3 DEF StepInv, Deliver
<1>7. CASE dirty = 0
  <2>1. dirty' = 0
    BY <1>3, <1>7
  <2>2. CASE pos = 0
    <3>1. state = "S_IDLE"
      BY <1>1, <1>7, <2>2 DEF StepInv, InStep, S_IDLE, S_W_ADDR, S_W_DATA, S_R_ADDR
    <3>2. state' = IF h.op = "W" THEN "S_W_ADDR" ELSE "S_R_ADDR"
      BY <1>1, <1>2, <2>2, <3>1 DEF S_IDLE, S_W_ADDR, S_W_DATA, S_R_ADDR, CMD_W, CMD_R
    <3>3. pos' = 1 /\ cmds' = cmds
      BY <1>2, <1>3, <1>4, <2>2
    <3>4. QED
      BY <1>2, <1>5, <1>6, <2>1, <3>2, <3>3 DEF StepInv, InStep
  <2>3. CASE pos = 1 /\ h.op = "W"
    <3>1. state = "S_W_ADDR"
      BY <1>7, <2>3 DEF StepInv, InStep
    <3>2. state' = "S_W_DATA" /\ addr_l' = h.addr /\ wr' = <<>>
      BY <1>1, <2>3, <3>1 DEF S_IDLE, S_W_ADDR, S_W_DATA, S_R_ADDR
    <3>3. pos' = 2 /\ cmds' = cmds
      BY <1>3, <1>4, <2>3
    <3>4. QED
      BY <1>2, <1>6, <2>1, <2>3, <3>2, <3>3 DEF StepInv, InStep
  <2>4. CASE pos = 1 /\ h.op = "R"
    <3>1. state = "S_R_ADDR"
      BY <1>7, <2>4 DEF StepInv, InStep
    <3>2. state' = "S_R_SEND"
      BY <1>1, <3>1 DEF S_IDLE, S_W_ADDR, S_W_DATA, S_R_ADDR
    <3>3. pos' = 0
      BY <1>3, <1>4, <2>4
    <3>4. QED
      BY <1>5, <1>6, <2>1, <3>2, <3>3 DEF StepInv, InStep
  <2>5. CASE pos = 2
    <3>1. state = "S_W_DATA"
      BY <1>7, <2>5 DEF StepInv, InStep
    <3>2. state' = "S_IDLE"
      BY <1>1, <3>1 DEF S_IDLE, S_W_ADDR, S_W_DATA, S_R_ADDR
    <3>3. pos' = 0
      BY <1>2, <1>3, <1>4, <2>5
    <3>4. QED
      BY <1>6, <2>1, <3>2, <3>3 DEF StepInv, InStep
  <2>6. QED
    BY <1>2, <2>2, <2>3, <2>4, <2>5
<1>8. CASE dirty = 1
  <2>1. NoCodes
    BY <1>8 DEF StepInv
  <2>2. pos # 0 => b # CMD_W /\ b # CMD_R
    BY <1>1, <1>2, <2>1 DEF NoCodes
  <2>3. CASE pos = 0
    <3>1. state' \in {"S_IDLE", "S_W_DATA", "S_R_SEND"} \cup
                     (IF h.op = "W" THEN {"S_W_ADDR"} ELSE {"S_R_ADDR"})
      BY <1>1, <1>2, <2>3 DEF S_IDLE, S_W_ADDR, S_W_DATA, S_R_ADDR, CMD_W, CMD_R
    <3>2. pos' = 1 /\ cmds' = cmds /\ dirty' = 1
      BY <1>2, <1>3, <1>4, <1>8, <2>3
    <3>3. QED
      BY <1>5, <1>6, <3>1, <3>2 DEF StepInv, InStep, Resyncing
  <2>4. CASE pos = 1 /\ h.op = "W"
    <3>1. state \in {"S_IDLE", "S_W_DATA", "S_R_SEND", "S_W_ADDR"}
      BY <1>8, <2>4 DEF StepInv, Resyncing
    <3>2. state' \in {"S_IDLE", "S_W_DATA", "S_R_SEND"}
      BY <1>1, <2>2, <2>4, <3>1 DEF S_IDLE, S_W_ADDR, S_W_DATA, S_R_ADDR
    <3>3. pos' = 2 /\ dirty' = 1
      BY <1>3, <1>4, <1>8, <2>4
    <3>4. QED
      BY <1>5, <1>6, <3>2, <3>3 DEF StepInv, InStep, Resyncing
  <2>5. CASE pos = 1 /\ h.op = "R"
    <3>1. state \in {"S_IDLE", "S_W_DATA", "S_R_SEND", "S_R_ADDR"}
      BY <1>8, <2>5 DEF StepInv, Resyncing
    <3>2. state' \in {"S_IDLE", "S_R_SEND"}
      BY <1>1, <2>2, <2>5, <3>1 DEF S_IDLE, S_W_ADDR, S_W_DATA, S_R_ADDR
    <3>3. pos' = 0 /\ dirty' = 0
      BY <1>3, <1>4, <1>8, <2>5
    <3>4. QED
      BY <1>5, <1>6, <3>2, <3>3 DEF StepInv, InStep
  <2>6. CASE pos = 2
    <3>1. state \in {"S_IDLE", "S_W_DATA", "S_R_SEND"}
      BY <1>8, <2>6 DEF StepInv, Resyncing
    <3>2. state' \in {"S_IDLE", "S_R_SEND"}
      BY <1>1, <2>2, <2>6, <3>1 DEF S_IDLE, S_W_ADDR, S_W_DATA, S_R_ADDR
    <3>3. pos' = 0 /\ dirty' = 0
      BY <1>2, <1>3, <1>4, <1>8, <2>6
    <3>4. QED
      BY <1>5, <1>6, <3>2, <3>3 DEF StepInv, InStep
  <2>7. QED
    BY <1>2, <2>3, <2>4, <2>5, <2>6
<1>9. CASE dirty = 2
  <2>1. pos # 0
    BY <1>9 DEF StepInv
  <2>2. (dirty' = 1 /\ pos' = 0) \/ (dirty' = 2 /\ pos' # 0)
    BY <1>2, <1>3, <1>4, <1>9, <2>1
  <2>3. QED
    BY <1>5, <1>6, <2>2 DEF StepInv, InStep, Resyncing
<1>10. QED
  BY <1>2, <1>7, <1>8, <1>9

\* A command that goes out behind the others leaves the FSM in step.
LEMMA StepAppends ==
  ASSUME TypeOK, PosOK, StepInv, NEW c \in Cmd, cmds' = Append(cmds, c),
         UNCHANGED <<pos, state, addr_l, wr, dirty, noise>>
  PROVE  StepInv'
<1>1. cmds' # <<>> /\ (cmds # <<>> => Head(cmds') = Head(cmds))
  BY HeadKept
<1>2. QED
  BY <1>1 DEF StepInv, InStep, Resyncing, PosOK

\* A step keeps StepInv when no data looks like a command, or before the first fault.
LEMMA StepKept ==
  ASSUME TypeOK, PosOK, TxInv, StepInv, NoCodes \/ noise = 0, [Next]_vars
  PROVE  StepInv'
<1>hit. ASSUME Disturbed, state' \in {"S_W_DATA", "S_R_SEND"} => wr' = <<>>
        PROVE  StepInv'
  <2>1. noise' # 0
    BY <1>hit DEF Disturbed, TypeOK
  <2>2. (pos' = 0 /\ dirty' = 1) \/ (pos' # 0 /\ dirty' = 2)
    BY <1>hit DEF Disturbed
  <2>3. QED
    BY <1>hit, <2>1, <2>2 DEF StepInv, InStep, Resyncing
<1>1. ASSUME NEW a \in Addrs, HostRead(a) PROVE StepInv'
  <2>1. [op |-> "R", addr |-> a] \in Cmd
    BY DEF Cmd
  <2>2. QED
    BY <1>1, <2>1, StepAppends DEF HostRead, fsmVars
<1>2. ASSUME NEW a \in Addrs, NEW d \in Payload, HostWrite(a, d) PROVE StepInv'
  <2>1. [op |-> "W", addr |-> a, data |-> d] \in Cmd
    BY DEF Cmd
  <2>2. QED
    BY <1>2, <2>1, StepAppends DEF HostWrite, fsmVars
<1>3. CASE HostRecv \/ HostTimeout \/ TxDone \/ UNCHANGED vars
  BY <1>3 DEF HostRecv, HostTimeout, TxDone, vars, lineVars, fsmVars, StepInv, InStep, Resyncing
<1>4. CASE Deliver
  BY <1>4, DeliverInStep
<1>5. CASE LoseByte
  BY <1>5, <1>hit DEF LoseByte, fsmVars, StepInv
<1>6. ASSUME NEW b \in NoiseBytes, SpuriousByte(b) PROVE StepInv'
  <2>1. state' \in {"S_W_DATA", "S_R_SEND"} => wr' = <<>>
    BY <1>6 DEF SpuriousByte, Rx, S_IDLE, S_W_ADDR, S_W_DATA, S_R_ADDR, S_R_SEND_Rx
  <2>2. QED
    BY <1>6, <1>hit, <2>1 DEF SpuriousByte
<1>7. CASE S_R_SEND
  BY <1>7 DEF S_R_SEND, lineVars, StepInv, InStep, Resyncing
<1>8. CASE ClearStrobe
  BY <1>8 DEF ClearStrobe, lineVars, StepInv, InStep, Resyncing
<1>q. QED
  BY <1>1, <1>2, <1>3, <1>4, <1>5, <1>6, <1>7, <1>8 DEF Next

LEMMA StepInit == Init => StepInv
  BY DEF Init, StepInv, InStep

\* The number of faults only grows.
LEMMA NoiseGrows ==
  ASSUME TypeOK, [Next]_vars, noise' = 0
  PROVE  noise = 0 /\ ~LoseByte /\ \A b \in NoiseBytes : ~SpuriousByte(b)
<1>1. ~Disturbed
  BY DEF Disturbed, TypeOK
<1>2. noise' = noise
  BY <1>1 DEF Next, HostRead, HostWrite, HostRecv, HostTimeout, Deliver, LoseByte,
              SpuriousByte, S_R_SEND, ClearStrobe, TxDone, vars
<1>3. QED
  BY <1>1, <1>2 DEF LoseByte, SpuriousByte

LEMMA StepInvariant ==
  ASSUME NoCodes \/ MaxNoise = 0
  PROVE  Spec => []StepInv
<1>1. TypeOK => NoCodes \/ noise = 0
  BY DEF TypeOK
<1>2. TypeOK /\ PosOK /\ TxInv /\ StepInv /\ [Next]_vars => StepInv'
  BY <1>1, StepKept
<1>3. QED
  BY <1>2, StepInit, Typing, TxInvariant, PTL DEF Spec

\* Up to the first fault the FSM is in step whatever the data.
Undisturbed == noise = 0 => StepInv

LEMMA UndisturbedInStep == Spec => []Undisturbed
<1>1. Init => Undisturbed
  BY StepInit DEF Undisturbed
<1>2. TypeOK /\ PosOK /\ TxInv /\ Undisturbed /\ [Next]_vars => Undisturbed'
  BY StepKept, NoiseGrows DEF Undisturbed
<1>3. QED
  BY <1>1, <1>2, Typing, TxInvariant, PTL DEF Spec

\* A line fault costs at most the command it hits and the next one: afterwards
\* the FSM is where the sender thinks it is.  ctrl_regs.v has no timeout, so
\* this needs data that is never 'W' or 'R', or a line without faults.
THEOREM InStepTheorem ==
  ASSUME NoCodes \/ MaxNoise = 0
  PROVE  Spec => []InStep
<1>1. StepInv => InStep
  BY DEF StepInv
<1>2. QED
  BY <1>1, StepInvariant, PTL

\* In step, only the last byte of a write changes the file.
LEMMA WriteStep ==
  ASSUME TypeOK, PosOK, TxInv, StepInv, [Next]_vars, dirty = 0, dirty' = 0, regs' # regs
  PROVE  /\ Head(cmds).op = "W" /\ cmds # <<>> /\ cmds' = Tail(cmds) /\ Deliver
         /\ regs' = [regs EXCEPT ![Head(cmds).addr] = Head(cmds).data]
<1>1. Deliver
  <2>1. ~Disturbed
    BY DEF Disturbed
  <2>2. QED
    BY <2>1 DEF Next, HostRead, HostWrite, HostRecv, HostTimeout, LoseByte, SpuriousByte,
                S_R_SEND, ClearStrobe, TxDone, fsmVars, vars
<1>2. PICK b \in Byte :
        /\ pos = 0 => b = IF Head(cmds).op = "W" THEN CMD_W ELSE CMD_R
        /\ pos = 1 => b = Head(cmds).addr
        /\ pos = 2 => b = Head(cmds).data
        /\ S_IDLE(b) \/ S_W_ADDR(b) \/ S_W_DATA(b) \/ S_R_ADDR(b)
  BY <1>1, DeliverFacts
<1>3. /\ state = "S_W_DATA"
      /\ regs' = IF addr_l < NREGS THEN [regs EXCEPT ![addr_l] = b] ELSE regs
  BY <1>2 DEF S_IDLE, S_W_ADDR, S_W_DATA, S_R_ADDR
<1>4. pos = 2 /\ Head(cmds).op = "W" /\ addr_l = Head(cmds).addr
  BY <1>3 DEF StepInv, InStep
<1>5. cmds' = Tail(cmds) /\ cmds # <<>>
  BY <1>1, <1>4, DeliverFacts DEF LastByte
<1>6. QED
  BY <1>1, <1>2, <1>3, <1>4, <1>5

\* In step, a register changes only to the data of the command that names it.
THEOREM CleanWritesTheorem ==
  ASSUME NoCodes \/ MaxNoise = 0
  PROVE  Spec => CleanWritesLand
<1> DEFINE Land == dirty = 0 /\ dirty' = 0 /\ regs' # regs =>
                     /\ Head(cmds).op = "W" /\ cmds' = Tail(cmds)
                     /\ regs' = [regs EXCEPT ![Head(cmds).addr] = Head(cmds).data]
<1>1. TypeOK /\ PosOK /\ TxInv /\ StepInv /\ [Next]_vars => [Land]_vars
  BY WriteStep
<1>2. QED
  BY <1>1, StepInvariant, Typing, TxInvariant, PTL DEF Spec, CleanWritesLand

-----------------------------------------------------------------------------
(* An undisturbed line implements RegLink.                                 *)

THEOREM RefinementTheorem ==
  ASSUME MaxNoise = 0
  PROVE  Spec => ImplementsRegLink
<1>1. Init => RL!Init
  BY DEF Init, RL!Init, RL!Reg, Reg, pendingCmds
<1>2. TypeOK /\ PosOK /\ TxInv /\ StepInv /\ [Next]_vars => [RL!Next]_(RL!linkVars)
  <2> SUFFICES ASSUME TypeOK, PosOK, TxInv, StepInv, [Next]_vars
               PROVE  RL!Next \/ UNCHANGED RL!linkVars
    OBVIOUS
  <2> USE DEF RL!linkVars
  <2>0. noise = 0 /\ dirty = 0 /\ dirty \in 0 .. 2
    BY DEF StepInv, TypeOK
  <2>add. ASSUME NEW c \in Cmd, cmds' = Append(cmds, c), UNCHANGED <<fsmVars, tx, inbuf>>
          PROVE  RL!Next
    <3>1. c \in RL!Cmd
      BY <2>add DEF Cmd, RL!Cmd
    <3>2. pendingCmds' = Append(pendingCmds, c)
      <4>1. cmds \in Seq(Cmd)
        BY DEF TypeOK
      <4>2. CASE state = "S_R_SEND"
        <5> DEFINE q == <<[op |-> "R", addr |-> addr_l]>>
        <5>1. q \o Append(cmds, c) = Append(q \o cmds, c)
          BY <4>1
        <5>2. QED
          BY <4>2, <5>1, <2>add DEF pendingCmds, fsmVars
      <4>3. QED
        BY <2>add, <4>2 DEF pendingCmds, fsmVars
    <3>3. RL!Issue
      BY <2>add, <3>1, <3>2 DEF RL!Issue, fsmVars
    <3>4. QED
      BY <3>3 DEF RL!Next
  <2>1. ASSUME NEW a \in Addrs, HostRead(a) PROVE RL!Next
    <3>1. [op |-> "R", addr |-> a] \in Cmd
      BY DEF Cmd
    <3>2. QED
      BY <2>1, <2>add, <3>1 DEF HostRead
  <2>2. ASSUME NEW a \in Addrs, NEW d \in Payload, HostWrite(a, d) PROVE RL!Next
    <3>1. [op |-> "W", addr |-> a, data |-> d] \in Cmd
      BY DEF Cmd
    <3>2. QED
      BY <2>2, <2>add, <3>1 DEF HostWrite
  <2>3. CASE HostRecv
    <3>1. (inbuf \o tx) # <<>> /\ Tail(inbuf) \o tx = Tail(inbuf \o tx)
      <4>1. inbuf \in Seq(Byte) /\ inbuf # <<>> /\ tx \in Seq(Byte)
        BY <2>3, TxIsSeq DEF HostRecv
      <4>2. QED
        BY <4>1
    <3>2. RL!Receive
      BY <2>3, <3>1 DEF HostRecv, RL!Receive, pendingCmds, lineVars, fsmVars
    <3>3. QED
      BY <3>2 DEF RL!Next
  <2>4. CASE HostTimeout
    BY <2>4 DEF HostTimeout, lineVars, fsmVars, pendingCmds
  <2>5. CASE Deliver
    <3>1. PICK b \in Byte :
            /\ pos = 0 => b = IF Head(cmds).op = "W" THEN CMD_W ELSE CMD_R
            /\ pos = 1 => b = Head(cmds).addr
            /\ pos = 2 => b = Head(cmds).data
            /\ S_IDLE(b) \/ S_W_ADDR(b) \/ S_W_DATA(b) \/ S_R_ADDR(b)
      BY <2>5, DeliverFacts
    <3>2. /\ Head(cmds) \in Cmd /\ cmds # <<>> /\ Head(cmds).op \in {"W", "R"}
          /\ cmds' = IF LastByte THEN Tail(cmds) ELSE cmds
          /\ UNCHANGED <<tx, inbuf>>
      BY <2>5, DeliverFacts, EncodeOf DEF Deliver, Rx
    <3>3. CASE pos = 0
      <4>1. state = "S_IDLE"
        BY <2>0, <3>1, <3>3 DEF StepInv, InStep, S_IDLE, S_W_ADDR, S_W_DATA, S_R_ADDR
      <4>2. /\ state' # "S_R_SEND" /\ wr' = <<>> /\ regs' = regs
        BY <3>1, <4>1 DEF S_IDLE, S_W_ADDR, S_W_DATA, S_R_ADDR
      <4>3. cmds' = cmds
        BY <3>2, <3>3 DEF LastByte
      <4>4. pendingCmds' = pendingCmds
        BY <4>1, <4>2, <4>3 DEF pendingCmds
      <4>5. CASE wr = <<>>
        BY <3>2, <4>2, <4>4, <4>5
      <4>6. CASE wr # <<>>
        BY <3>2, <4>2, <4>4, <4>6 DEF RL!Next, RL!Deassert
      <4>7. QED
        BY <4>5, <4>6
    <3>4. CASE pos = 1
      <4>1. state \in {"S_W_ADDR", "S_R_ADDR"}
            /\ state = IF Head(cmds).op = "W" THEN "S_W_ADDR" ELSE "S_R_ADDR"
        BY <2>0, <3>4 DEF StepInv, InStep
      <4>2. /\ wr' = <<>> /\ regs' = regs
            /\ state' = IF Head(cmds).op = "W" THEN "S_W_DATA" ELSE "S_R_SEND"
            /\ addr_l' = Head(cmds).addr
        BY <3>1, <3>4, <4>1 DEF S_IDLE, S_W_ADDR, S_W_DATA, S_R_ADDR
      <4>3. pendingCmds' = pendingCmds
        <5>1. CASE Head(cmds).op = "W"
          BY <3>2, <3>4, <4>1, <4>2, <5>1 DEF pendingCmds, LastByte
        <5>2. CASE Head(cmds).op = "R"
          <6>1. cmds' = Tail(cmds)
            BY <3>2, <3>4, <5>2 DEF LastByte
          <6>2. Head(cmds) = [op |-> "R", addr |-> Head(cmds).addr]
            BY <3>2, <5>2 DEF Cmd
          <6>3. <<Head(cmds)>> \o Tail(cmds) = cmds
            BY <3>2 DEF TypeOK
          <6>4. QED
            BY <4>1, <4>2, <5>2, <6>1, <6>2, <6>3 DEF pendingCmds
        <5>3. QED
          BY <3>2, <5>1, <5>2
      <4>4. CASE wr = <<>>
        BY <3>2, <4>2, <4>3, <4>4
      <4>5. CASE wr # <<>>
        BY <3>2, <4>2, <4>3, <4>5 DEF RL!Next, RL!Deassert
      <4>6. QED
        BY <4>4, <4>5
    <3>5. CASE pos = 2
      <4>1. state = "S_W_DATA" /\ addr_l = Head(cmds).addr /\ Head(cmds).op = "W" /\ wr = <<>>
        BY <2>0, <3>5 DEF StepInv, InStep
      <4>2. /\ wr' = <<Head(cmds).addr, Head(cmds).data>>
            /\ regs' = IF Head(cmds).addr < NREGS
                       THEN [regs EXCEPT ![Head(cmds).addr] = Head(cmds).data] ELSE regs
            /\ state' = "S_IDLE"
        BY <3>1, <3>5, <4>1 DEF S_IDLE, S_W_ADDR, S_W_DATA, S_R_ADDR
      <4>3. pendingCmds = cmds /\ pendingCmds' = Tail(cmds)
        BY <3>2, <3>5, <4>1, <4>2 DEF pendingCmds, LastByte
      <4>4. Head(cmds).addr < NREGS <=> Head(cmds).addr \in RL!Reg
        BY <3>2, EncodeOf, ByteNat, ConstantsOK DEF ConstantsOK, RL!Reg
      <4>5. RL!ApplyWrite
        BY <3>2, <4>1, <4>2, <4>3, <4>4 DEF RL!ApplyWrite
      <4>6. QED
        BY <4>5 DEF RL!Next
    <3>6. QED
      BY <3>3, <3>4, <3>5 DEF TypeOK
  <2>6. ~LoseByte /\ \A b \in NoiseBytes : ~SpuriousByte(b)
    BY DEF LoseByte, SpuriousByte, Disturbed, TypeOK
  <2>7. CASE S_R_SEND
    <3>1. pos = 0 /\ state = "S_R_SEND" /\ tx = <<>> /\ state' = "S_IDLE"
          /\ cmds' = cmds /\ inbuf' = inbuf /\ regs' = regs
      BY <2>0, <2>7 DEF S_R_SEND, StepInv, InStep, lineVars
    <3> DEFINE q == [op |-> "R", addr |-> addr_l]
    <3>2. pendingCmds = <<q>> \o cmds /\ pendingCmds' = cmds
      BY <3>1 DEF pendingCmds
    <3>3. pendingCmds # <<>> /\ Head(pendingCmds) = q /\ Tail(pendingCmds) = cmds
      BY <3>2 DEF TypeOK
    <3>4. PICK v \in ReadReg(addr_l) : tx' = <<v>>
      BY <2>7 DEF S_R_SEND
    <3>5. v \in RL!ReadValues(regs, addr_l)
      <4>1. addr_l \in Nat /\ (addr_l < NREGS <=> addr_l \in RL!Reg)
        BY ByteNat, ConstantsOK DEF ConstantsOK, TypeOK, RL!Reg
      <4>2. QED
        BY <3>4, <4>1 DEF ReadReg, RL!ReadValues, STATUS_BASE
    <3>6. (inbuf \o tx)' = Append(inbuf \o tx, v)
      BY <3>1, <3>4 DEF TypeOK
    <3>7. wr = <<>> /\ wr' = <<>>
      BY <2>7, <3>1 DEF StepInv, S_R_SEND
    <3>8. Head(pendingCmds).op = "R" /\ Head(pendingCmds).addr = addr_l
      BY <3>3
    <3>9. RL!ApplyRead
      BY <3>1, <3>2, <3>3, <3>5, <3>6, <3>7, <3>8 DEF RL!ApplyRead
    <3>10. QED
      BY <3>9 DEF RL!Next
  <2>8. CASE ClearStrobe
    BY <2>8 DEF ClearStrobe, RL!Next, RL!Deassert, pendingCmds, lineVars
  <2>9. CASE TxDone
    <3>1. (inbuf \o tx)' = inbuf \o tx
      <4>1. inbuf \o tx \in Seq(Byte) /\ inbuf' = inbuf \o tx /\ tx' = <<>>
        BY <2>9, TxIsSeq DEF TxDone
      <4>2. QED
        BY <4>1
    <3>2. QED
      BY <2>9, <3>1 DEF TxDone, pendingCmds, lineVars, fsmVars
  <2>10. CASE UNCHANGED vars
    BY <2>10 DEF vars, pendingCmds, lineVars, fsmVars
  <2>q. QED
    BY <2>1, <2>2, <2>3, <2>4, <2>5, <2>6, <2>7, <2>8, <2>9, <2>10 DEF Next
<1>3. QED
  BY <1>1, <1>2, Typing, TxInvariant, StepInvariant, PTL DEF Spec, ImplementsRegLink, RL!Spec

-----------------------------------------------------------------------------
(* What the host wrote is what the registers will hold.                    *)

Writes(c, r) == c.op = "W" /\ c.addr = r

\* A register with no write on the line already holds what the host wrote; for
\* any other the last write on the line carries it.
WantInv ==
  \A r \in Reg :
    /\ (\A i \in 1 .. Len(cmds) : ~Writes(cmds[i], r)) => regs[r] = want[r]
    /\ \A i \in 1 .. Len(cmds) :
         /\ Writes(cmds[i], r)
         /\ \A j \in i + 1 .. Len(cmds) : ~Writes(cmds[j], r)
         => want[r] = cmds[i].data

\* It holds up to the first fault on the line.
WantKept == noise = 0 => WantInv

LEMMA WantInvariant == Spec => []WantKept
<1>1. Init => WantKept
  BY DEF Init, WantInv, WantKept
<1>2. TypeOK /\ PosOK /\ TxInv /\ Undisturbed /\ WantKept /\ [Next]_vars => WantKept'
  <2> SUFFICES ASSUME TypeOK, PosOK, TxInv, StepInv, WantInv, [Next]_vars, noise = 0, noise' = 0
               PROVE  WantInv'
    BY NoiseGrows DEF Undisturbed, WantKept
  <2>0. cmds \in Seq(Cmd) /\ dirty = 0
    BY DEF StepInv, TypeOK
  <2>same. ASSUME UNCHANGED <<cmds, regs, want>> PROVE WantInv'
    BY <2>same DEF WantInv
  <2>1. ASSUME NEW a \in Addrs, HostRead(a) PROVE WantInv'
    <3> DEFINE c == [op |-> "R", addr |-> a]
    <3>1. cmds' = Append(cmds, c) /\ regs' = regs /\ want' = want
      BY <2>1 DEF HostRead, fsmVars
    <3>2. /\ Len(cmds') = Len(cmds) + 1 /\ cmds'[Len(cmds) + 1] = c /\ Len(cmds) \in Nat
          /\ \A i \in 1 .. Len(cmds) : cmds'[i] = cmds[i]
      BY <2>0, <3>1
    <3>3. \A r \in Reg : ~Writes(c, r)
      BY DEF Writes
    <3>4. \A r \in Reg : \A i \in 1 .. Len(cmds) + 1 : Writes(cmds'[i], r) => i \in 1 .. Len(cmds)
      BY <3>2, <3>3
    <3>5. QED
      BY <3>1, <3>2, <3>3, <3>4 DEF WantInv
  <2>2. ASSUME NEW a \in Addrs, NEW d \in Payload, HostWrite(a, d) PROVE WantInv'
    <3> DEFINE c == [op |-> "W", addr |-> a, data |-> d]
    <3>1. /\ cmds' = Append(cmds, c) /\ regs' = regs
          /\ want' = IF a < NREGS THEN [want EXCEPT ![a] = d] ELSE want
      BY <2>2 DEF HostWrite, fsmVars
    <3>2. /\ Len(cmds') = Len(cmds) + 1 /\ cmds'[Len(cmds) + 1] = c /\ Len(cmds) \in Nat
          /\ \A i \in 1 .. Len(cmds) : cmds'[i] = cmds[i]
      BY <2>0, <3>1
    <3> SUFFICES ASSUME NEW r \in Reg
                 PROVE  /\ (\A i \in 1 .. Len(cmds') : ~Writes(cmds'[i], r)) => regs'[r] = want'[r]
                        /\ \A i \in 1 .. Len(cmds') :
                             /\ Writes(cmds'[i], r)
                             /\ \A j \in i + 1 .. Len(cmds') : ~Writes(cmds'[j], r)
                             => want'[r] = cmds'[i].data
      BY DEF WantInv
    <3>3. CASE a = r
      <4>1. Writes(c, r) /\ c.data = d /\ want'[r] = d
        <5>1. a < NREGS /\ want \in [Reg -> Byte]
          BY <3>3, ConstantsOK DEF ConstantsOK, Reg, TypeOK
        <5>2. QED
          BY <3>1, <3>3, <5>1 DEF Writes
      <4>2. ASSUME NEW i \in 1 .. Len(cmds'), \A j \in i + 1 .. Len(cmds') : ~Writes(cmds'[j], r)
            PROVE  i = Len(cmds) + 1
        BY <3>2, <4>1, <4>2
      <4>3. QED
        BY <3>2, <4>1, <4>2
    <3>4. CASE a # r
      <4>1. ~Writes(c, r) /\ want'[r] = want[r]
        BY <3>1, <3>4 DEF Writes, TypeOK
      <4>2. \A i \in 1 .. Len(cmds') : Writes(cmds'[i], r) => i \in 1 .. Len(cmds)
        BY <3>2, <4>1
      <4>3. QED
        BY <3>1, <3>2, <4>1, <4>2 DEF WantInv
    <3>5. QED
      BY <3>3, <3>4
  <2>3. CASE Deliver
    <3>1. PICK b \in Byte :
            /\ pos = 2 => b = Head(cmds).data
            /\ S_IDLE(b) \/ S_W_ADDR(b) \/ S_W_DATA(b) \/ S_R_ADDR(b)
      BY <2>3, DeliverFacts
    <3>2. /\ cmds # <<>> /\ want' = want
          /\ cmds' = IF LastByte THEN Tail(cmds) ELSE cmds
      BY <2>3, DeliverFacts DEF Deliver, Rx, hostVars
    <3>3. CASE state # "S_W_DATA"
      <4>1. regs' = regs
        BY <3>1, <3>3 DEF S_IDLE, S_W_ADDR, S_W_DATA, S_R_ADDR
      <4>2. CASE ~LastByte
        BY <2>same, <3>2, <4>1, <4>2
      <4>3. CASE LastByte
        <5>1. ~(Head(cmds).op = "W")
          BY <2>0, <3>3, <4>3 DEF LastByte, StepInv, InStep
        <5>2. /\ cmds' = Tail(cmds) /\ Len(cmds') = Len(cmds) - 1 /\ Len(cmds) \in Nat
              /\ \A i \in 1 .. Len(cmds) - 1 : cmds'[i] = cmds[i + 1]
          BY <2>0, <3>2, <4>3
        <5>3. \A r \in Reg : ~Writes(cmds[1], r)
          BY <3>2, <5>1, <2>0 DEF Writes
        <5>4. ASSUME NEW r \in Reg, \A i \in 1 .. Len(cmds') : ~Writes(cmds'[i], r)
              PROVE  \A i \in 1 .. Len(cmds) : ~Writes(cmds[i], r)
          <6> SUFFICES ASSUME NEW i \in 1 .. Len(cmds) PROVE ~Writes(cmds[i], r)
            OBVIOUS
          <6>1. CASE i = 1
            BY <5>3, <6>1
          <6>2. CASE i # 1
            <7>1. i - 1 \in 1 .. Len(cmds') /\ cmds'[i - 1] = cmds[i]
              BY <5>2, <6>2
            <7>2. QED
              BY <5>4, <7>1
          <6>3. QED
            BY <6>1, <6>2
        <5>5. ASSUME NEW r \in Reg, NEW i \in 1 .. Len(cmds'), Writes(cmds'[i], r),
                     \A j \in i + 1 .. Len(cmds') : ~Writes(cmds'[j], r)
              PROVE  want'[r] = cmds'[i].data
          <6>1. i + 1 \in 1 .. Len(cmds) /\ cmds'[i] = cmds[i + 1]
            BY <5>2
          <6>2. ASSUME NEW j \in i + 2 .. Len(cmds) PROVE ~Writes(cmds[j], r)
            <7>1. j - 1 \in i + 1 .. Len(cmds') /\ cmds'[j - 1] = cmds[j]
              BY <5>2
            <7>2. QED
              BY <5>5, <7>1
          <6>3. QED
            BY <3>2, <5>5, <6>1, <6>2 DEF WantInv
        <5>6. QED
          BY <3>2, <4>1, <5>4, <5>5 DEF WantInv
      <4>4. QED
        BY <4>2, <4>3
    <3>4. CASE state = "S_W_DATA"
      <4>1. pos = 2 /\ Head(cmds).op = "W" /\ addr_l = Head(cmds).addr
        BY <2>0, <3>4 DEF StepInv, InStep
      <4>2. /\ cmds[1].op = "W"
            /\ regs' = IF cmds[1].addr < NREGS
                       THEN [regs EXCEPT ![cmds[1].addr] = cmds[1].data] ELSE regs
        BY <2>0, <3>1, <3>2, <3>4, <4>1 DEF S_IDLE, S_W_ADDR, S_W_DATA, S_R_ADDR
      <4>3. /\ cmds' = Tail(cmds) /\ Len(cmds') = Len(cmds) - 1 /\ Len(cmds) \in Nat
            /\ Len(cmds) >= 1
            /\ \A i \in 1 .. Len(cmds) - 1 : cmds'[i] = cmds[i + 1]
        BY <2>0, <3>2, <4>1 DEF LastByte
      <4>4. ASSUME NEW r \in Reg, \A i \in 1 .. Len(cmds') : ~Writes(cmds'[i], r)
            PROVE  regs'[r] = want'[r]
        <5>1. ASSUME NEW i \in 2 .. Len(cmds) PROVE ~Writes(cmds[i], r)
          <6>1. i - 1 \in 1 .. Len(cmds') /\ cmds'[i - 1] = cmds[i]
            BY <4>3
          <6>2. QED
            BY <4>4, <6>1
        <5>2. CASE Writes(cmds[1], r)
          <6>1. want[r] = cmds[1].data
            BY <4>3, <5>1, <5>2 DEF WantInv
          <6>2. cmds[1].addr = r /\ r < NREGS /\ regs \in [Reg -> Byte]
            BY <5>2, ConstantsOK DEF ConstantsOK, Writes, Reg, TypeOK
          <6>3. QED
            BY <3>2, <4>2, <6>1, <6>2
        <5>3. CASE ~Writes(cmds[1], r)
          <6>1. \A i \in 1 .. Len(cmds) : ~Writes(cmds[i], r)
            BY <4>3, <5>1, <5>3
          <6>2. regs[r] = want[r]
            BY <6>1 DEF WantInv
          <6>3. regs'[r] = regs[r]
            BY <4>2, <5>3 DEF Writes, TypeOK
          <6>4. QED
            BY <3>2, <6>2, <6>3
        <5>4. QED
          BY <5>2, <5>3
      <4>5. ASSUME NEW r \in Reg, NEW i \in 1 .. Len(cmds'), Writes(cmds'[i], r),
                   \A j \in i + 1 .. Len(cmds') : ~Writes(cmds'[j], r)
            PROVE  want'[r] = cmds'[i].data
        <5>1. i + 1 \in 1 .. Len(cmds) /\ cmds'[i] = cmds[i + 1]
          BY <4>3
        <5>2. ASSUME NEW j \in i + 2 .. Len(cmds) PROVE ~Writes(cmds[j], r)
          <6>1. j - 1 \in i + 1 .. Len(cmds') /\ cmds'[j - 1] = cmds[j]
            BY <4>3
          <6>2. QED
            BY <4>5, <6>1
        <5>3. QED
          BY <3>2, <4>5, <5>1, <5>2 DEF WantInv
      <4>6. QED
        BY <4>4, <4>5 DEF WantInv
    <3>5. QED
      BY <3>3, <3>4
  <2>4. ~LoseByte /\ \A b \in NoiseBytes : ~SpuriousByte(b)
    BY NoiseGrows
  <2>5. CASE HostRecv \/ HostTimeout \/ S_R_SEND \/ ClearStrobe \/ TxDone \/ UNCHANGED vars
    BY <2>5, <2>same DEF HostRecv, HostTimeout, S_R_SEND, ClearStrobe, TxDone, vars,
                         lineVars, fsmVars, hostVars
  <2>q. QED
    BY <2>1, <2>2, <2>3, <2>4, <2>5 DEF Next
<1>3. QED
  BY <1>1, <1>2, Typing, TxInvariant, UndisturbedInStep, PTL DEF Spec

\* RegClient::arm reads nothing back: once the line is quiet the registers hold
\* the last data written to each, as long as the line has not failed.
THEOREM SettledTheorem == Spec => []Settled
<1>1. TypeOK /\ WantKept => Settled
  <2> SUFFICES ASSUME TypeOK, WantInv, cmds = <<>> PROVE regs = want
    BY DEF Settled, WantKept
  <2>1. \A r \in Reg : regs[r] = want[r]
    BY DEF WantInv
  <2>2. QED
    BY <2>1 DEF TypeOK
<1>2. QED
  BY <1>1, Typing, WantInvariant, PTL

-----------------------------------------------------------------------------
(* What read() returns.  ReadYourWrites says nothing while a read is       *)
(* waiting, so its invariant follows the one read there can be: still on   *)
(* the line behind the writes before it, taken by the FSM, or answered,    *)
(* with no other answer anywhere that recv() could take for its own.       *)

\* The right answer for an address, as the host sees the file.
Answers(a, v) ==
  IF a >= STATUS_BASE THEN v \in StatusVals
  ELSE v = IF a < NREGS THEN want[a] ELSE 0

NoAnswer  == state # "S_R_SEND" /\ tx = <<>> /\ inbuf = <<>>
NoRead    == NoAnswer /\ \A i \in 1 .. Len(cmds) : cmds[i].op = "W"
ReadOnLine == /\ NoAnswer /\ cmds # <<>>
              /\ cmds[Len(cmds)].op = "R" /\ cmds[Len(cmds)].addr = rd[1]
              /\ \A i \in 1 .. Len(cmds) - 1 : cmds[i].op = "W"
ReadTaken == cmds = <<>> /\ state = "S_R_SEND" /\ addr_l = rd[1] /\ tx = <<>> /\ inbuf = <<>>
ReadAnswered ==
  /\ cmds = <<>> /\ state # "S_R_SEND"
  /\ \E v \in Byte : /\ Answers(rd[1], v)
                     /\ (tx = <<v>> /\ inbuf = <<>>) \/ (tx = <<>> /\ inbuf = <<v>>)

ReadInv ==
  noise = 0 =>
    /\ rd = <<>> => NoRead
    /\ rd # <<>> => ReadOnLine \/ ReadTaken \/ ReadAnswered
    /\ rdval # <<>> => Answers(rdval[1], rdval[2])

\* One byte of the first command, with nothing answered yet.
LEMMA DeliverReads ==
  ASSUME TypeOK, PosOK, TxInv, StepInv, dirty = 0, NoAnswer, Deliver,
         \A i \in 1 .. Len(cmds) - 1 : cmds[i].op = "W"
  PROVE  /\ UNCHANGED <<tx, inbuf, rd, rdval, want>>
         /\ NoRead => NoRead'
         /\ rd # <<>> /\ ReadOnLine => ReadOnLine' \/ ReadTaken'
<1>1. PICK b \in Byte :
        /\ pos = 1 => b = Head(cmds).addr
        /\ S_IDLE(b) \/ S_W_ADDR(b) \/ S_W_DATA(b) \/ S_R_ADDR(b)
  BY DeliverFacts
<1>2. /\ UNCHANGED <<tx, inbuf, rd, rdval, want>> /\ tx = <<>> /\ inbuf = <<>>
      /\ cmds # <<>> /\ cmds' = IF LastByte THEN Tail(cmds) ELSE cmds
  BY DeliverFacts DEF Deliver, Rx, hostVars, NoAnswer
<1>3. /\ cmds \in Seq(Cmd) /\ Len(cmds) \in Nat /\ Len(cmds) >= 1 /\ Head(cmds) = cmds[1]
      /\ Len(Tail(cmds)) = Len(cmds) - 1
      /\ \A i \in 1 .. Len(cmds) - 1 : Tail(cmds)[i] = cmds[i + 1]
      /\ Len(cmds) = 1 => Tail(cmds) = <<>>
  <2>1. cmds \in Seq(Cmd) /\ Len(cmds) \in Nat /\ Len(cmds) >= 1 /\ Head(cmds) = cmds[1]
    BY <1>2 DEF TypeOK
  <2>2. /\ Tail(cmds) \in Seq(Cmd) /\ Len(Tail(cmds)) = Len(cmds) - 1
        /\ \A i \in 1 .. Len(cmds) - 1 : Tail(cmds)[i] = cmds[i + 1]
    BY <1>2, <2>1
  <2>3. ASSUME Len(cmds) = 1 PROVE Tail(cmds) = <<>>
    <3>1. Len(Tail(cmds)) = 0
      BY <2>2, <2>3
    <3>2. \A q \in Seq(Cmd) : q # <<>> => Len(q) \in Nat \ {0}
      BY EmptySeq
    <3>3. QED
      BY <2>2, <3>1, <3>2
  <2>4. QED
    BY <2>1, <2>2, <2>3
<1>4. cmds[1].op \in {"W", "R"}
  BY <1>3, EncodeOf
<1>5. CASE state = "S_R_ADDR"
  <2>1. pos = 1 /\ cmds[1].op = "R"
    BY <1>3, <1>4, <1>5 DEF StepInv, InStep
  <2>2. Len(cmds) = 1
    <3>1. ~(1 \in 1 .. Len(cmds) - 1)
      BY <2>1
    <3>2. \A k \in Nat : k >= 1 /\ ~(1 \in 1 .. k - 1) => k = 1
      OBVIOUS
    <3>3. Len(cmds) \in Nat /\ Len(cmds) >= 1
      BY <1>3
    <3>4. QED
      BY <3>1, <3>2, <3>3, Zenon
  <2>3. LastByte
    BY <1>3, <2>1 DEF LastByte
  <2>4. cmds' = <<>> /\ state' = "S_R_SEND" /\ addr_l' = cmds[1].addr
    BY <1>1, <1>2, <1>3, <1>5, <2>1, <2>2, <2>3 DEF S_IDLE, S_W_ADDR, S_W_DATA, S_R_ADDR
  <2>5. ~NoRead
    BY <1>3, <2>1, <2>2 DEF NoRead
  <2>6. ReadOnLine => ReadTaken'
    BY <1>2, <2>2, <2>4 DEF ReadOnLine, ReadTaken
  <2>7. QED
    BY <1>2, <2>5, <2>6
<1>6. CASE state # "S_R_ADDR"
  <2>1. NoAnswer'
    BY <1>1, <1>2, <1>6 DEF S_IDLE, S_W_ADDR, S_W_DATA, S_R_ADDR, NoAnswer
  <2>2. CASE ~LastByte
    BY <1>2, <2>1, <2>2 DEF NoRead, ReadOnLine
  <2>3. CASE LastByte
    <3>1. cmds[1].op = "W"
      BY <1>3, <1>4, <1>6, <2>3 DEF LastByte, StepInv, InStep
    <3>2. /\ Len(cmds') = Len(cmds) - 1
          /\ \A i \in 1 .. Len(cmds) - 1 : cmds'[i] = cmds[i + 1]
      BY <1>2, <1>3, <2>3
    <3>3. NoRead => NoRead'
      BY <1>3, <2>1, <3>2 DEF NoRead
    <3>4. ASSUME ReadOnLine PROVE ReadOnLine'
      <4>1. Len(cmds) # 1
        BY <3>1, <3>4 DEF ReadOnLine
      <4>2. cmds'[Len(cmds')] = cmds[Len(cmds)] /\ cmds' # <<>>
        BY <1>3, <3>2, <4>1
      <4>3. \A i \in 1 .. Len(cmds') - 1 : cmds'[i].op = "W"
        BY <1>3, <3>2, <3>4 DEF ReadOnLine
      <4>4. QED
        BY <1>2, <2>1, <3>4, <4>2, <4>3 DEF ReadOnLine
    <3>5. QED
      BY <1>2, <3>3, <3>4
  <2>4. QED
    BY <2>2, <2>3
<1>7. QED
  BY <1>5, <1>6

\* read() returns what the host last wrote there: no answer is late or lost,
\* and none is taken for another's, as long as the line has not failed.
THEOREM ReadTheorem == Spec => []ReadYourWrites
<1>1. Init => ReadInv
  BY DEF Init, ReadInv, NoRead, NoAnswer
<1>2. TypeOK /\ PosOK /\ TxInv /\ Undisturbed /\ WantKept /\ ReadInv /\ [Next]_vars => ReadInv'
  <2> SUFFICES ASSUME TypeOK, PosOK, TxInv, StepInv, WantInv, ReadInv, [Next]_vars,
                      noise = 0, noise' = 0
               PROVE  ReadInv'
    BY NoiseGrows DEF Undisturbed, WantKept, ReadInv
  <2>0. /\ cmds \in Seq(Cmd) /\ Len(cmds) \in Nat /\ dirty = 0
        /\ rd = <<>> => NoRead
        /\ rd # <<>> => ReadOnLine \/ ReadTaken \/ ReadAnswered
        /\ rdval # <<>> => Answers(rdval[1], rdval[2])
    BY DEF StepInv, TypeOK, ReadInv
  <2>1. ASSUME NEW a \in Addrs, HostRead(a) PROVE ReadInv'
    <3> DEFINE c == [op |-> "R", addr |-> a]
    <3>1. /\ rd = <<>> /\ rd' = <<a>> /\ rdval' = <<>> /\ cmds' = Append(cmds, c)
          /\ UNCHANGED <<state, tx, inbuf>>
      BY <2>1 DEF HostRead, fsmVars
    <3>2. /\ Len(cmds') = Len(cmds) + 1 /\ cmds'[Len(cmds) + 1] = c /\ cmds' # <<>>
          /\ \A i \in 1 .. Len(cmds) : cmds'[i] = cmds[i]
      BY <2>0, <3>1
    <3>3. NoRead
      BY <2>0, <3>1
    <3>4. ReadOnLine'
      BY <2>0, <3>1, <3>2, <3>3 DEF NoRead, NoAnswer, ReadOnLine
    <3>5. QED
      BY <3>1, <3>4 DEF ReadInv
  <2>2. ASSUME NEW a \in Addrs, NEW d \in Payload, HostWrite(a, d) PROVE ReadInv'
    <3> DEFINE c == [op |-> "W", addr |-> a, data |-> d]
    <3>1. /\ rd = <<>> /\ rd' = <<>> /\ rdval' = <<>> /\ cmds' = Append(cmds, c)
          /\ UNCHANGED <<state, tx, inbuf>>
      BY <2>2 DEF HostWrite, fsmVars
    <3>2. /\ Len(cmds') = Len(cmds) + 1 /\ cmds'[Len(cmds) + 1] = c
          /\ \A i \in 1 .. Len(cmds) : cmds'[i] = cmds[i]
      BY <2>0, <3>1
    <3>3. NoRead
      BY <2>0, <3>1
    <3>4. NoRead'
      BY <2>0, <3>1, <3>2, <3>3 DEF NoRead, NoAnswer
    <3>5. QED
      BY <3>1, <3>4 DEF ReadInv
  <2>3. CASE HostRecv
    <3>1. /\ rd # <<>> /\ inbuf # <<>> /\ rdval' = <<rd[1], Head(inbuf)>>
          /\ inbuf' = Tail(inbuf) /\ rd' = <<>> /\ UNCHANGED <<cmds, state, tx, want>>
      BY <2>3 DEF HostRecv, lineVars, fsmVars
    <3>2. ReadAnswered
      BY <2>0, <3>1 DEF ReadOnLine, NoAnswer, ReadTaken
    <3>3. PICK v \in Byte : Answers(rd[1], v) /\ tx = <<>> /\ inbuf = <<v>>
      BY <3>1, <3>2 DEF ReadAnswered
    <3>4. inbuf' = <<>> /\ rdval'[1] = rd[1] /\ rdval'[2] = v
      BY <3>1, <3>3
    <3>5. cmds = <<>> /\ state # "S_R_SEND"
      BY <3>2 DEF ReadAnswered
    <3>6. NoRead'
      BY <3>1, <3>3, <3>4, <3>5 DEF NoRead, NoAnswer
    <3>7. Answers(rdval[1], rdval[2])'
      BY <3>1, <3>3, <3>4 DEF Answers
    <3>8. QED
      BY <3>1, <3>6, <3>7 DEF ReadInv
  <2>4. ~HostTimeout
    <3> SUFFICES ASSUME HostTimeout PROVE FALSE
      OBVIOUS
    <3>1. rd # <<>> /\ cmds = <<>> /\ state # "S_R_SEND" /\ tx = <<>> /\ inbuf = <<>>
      BY DEF HostTimeout
    <3>2. ReadAnswered
      BY <2>0, <3>1 DEF ReadOnLine, ReadTaken
    <3>3. QED
      BY <3>1, <3>2 DEF ReadAnswered
  <2>5. CASE Deliver
    <3>1. cmds # <<>>
      BY <2>5, DeliverFacts
    <3>2. /\ rd = <<>> => NoRead
          /\ rd # <<>> => ReadOnLine
      BY <2>0, <3>1 DEF ReadTaken, ReadAnswered
    <3>3. NoAnswer /\ \A i \in 1 .. Len(cmds) - 1 : cmds[i].op = "W"
      BY <2>0, <3>2 DEF NoRead, ReadOnLine
    <3>4. /\ UNCHANGED <<tx, inbuf, rd, rdval, want>>
          /\ NoRead => NoRead'
          /\ rd # <<>> /\ ReadOnLine => ReadOnLine' \/ ReadTaken'
      BY <2>0, <2>5, <3>3, DeliverReads
    <3>5. rdval' # <<>> => Answers(rdval[1], rdval[2])'
      BY <2>0, <3>4 DEF Answers
    <3>6. QED
      BY <3>2, <3>4, <3>5 DEF ReadInv
  <2>6. CASE S_R_SEND
    <3>1. /\ state = "S_R_SEND" /\ state' = "S_IDLE" /\ UNCHANGED <<cmds, regs, inbuf, rd, rdval, want>>
          /\ \E v \in ReadReg(addr_l) : tx' = <<v>>
      BY <2>6 DEF S_R_SEND, lineVars, hostVars
    <3>2. rd # <<>> /\ ReadTaken
      BY <2>0, <3>1 DEF NoRead, NoAnswer, ReadOnLine, ReadAnswered
    <3>3. cmds = <<>> /\ addr_l = rd[1] /\ inbuf = <<>> /\ addr_l \in Byte
      BY <3>2 DEF ReadTaken, TypeOK
    <3>4. \A r \in Reg : regs[r] = want[r]
      BY <3>3 DEF WantInv
    <3>5. PICK v \in ReadReg(addr_l) : tx' = <<v>>
      BY <3>1
    <3>6. addr_l < NREGS => addr_l \in Reg
      BY <3>3, ByteNat, ConstantsOK DEF ConstantsOK, Reg
    <3>7. Answers(addr_l, v) /\ v \in Byte
      <4>1. CASE addr_l >= STATUS_BASE
        BY <3>5, <4>1, ConstantsOK DEF ConstantsOK, ReadReg, Answers
      <4>2. CASE ~(addr_l >= STATUS_BASE) /\ addr_l < NREGS
        BY <3>4, <3>5, <3>6, <4>2 DEF ReadReg, Answers, TypeOK
      <4>3. CASE ~(addr_l >= STATUS_BASE) /\ ~(addr_l < NREGS)
        BY <3>5, <4>3, ByteNat DEF ReadReg, Answers
      <4>4. QED
        BY <4>1, <4>2, <4>3
    <3>8. Answers(rd[1], v)'
      BY <3>1, <3>3, <3>7 DEF Answers
    <3>9. ReadAnswered'
      BY <3>1, <3>3, <3>5, <3>7, <3>8 DEF ReadAnswered, Answers
    <3>10. rdval' # <<>> => Answers(rdval[1], rdval[2])'
      BY <2>0, <3>1 DEF Answers
    <3>11. QED
      BY <3>1, <3>2, <3>9, <3>10 DEF ReadInv
  <2>7. CASE TxDone
    <3>1. /\ tx # <<>> /\ inbuf' = inbuf \o tx /\ tx' = <<>>
          /\ UNCHANGED <<cmds, state, addr_l, rd, rdval, want>>
      BY <2>7 DEF TxDone, lineVars, fsmVars, hostVars
    <3>2. rd # <<>> /\ ReadAnswered
      BY <2>0, <3>1 DEF NoRead, NoAnswer, ReadOnLine, ReadTaken
    <3>3. PICK v \in Byte : Answers(rd[1], v) /\ tx = <<v>> /\ inbuf = <<>>
      BY <3>1, <3>2 DEF ReadAnswered
    <3>4. inbuf' = <<v>>
      BY <3>1, <3>3
    <3>5. ReadAnswered'
      BY <3>1, <3>2, <3>3, <3>4 DEF ReadAnswered, Answers
    <3>6. rdval' # <<>> => Answers(rdval[1], rdval[2])'
      BY <2>0, <3>1 DEF Answers
    <3>7. QED
      BY <3>1, <3>2, <3>5, <3>6 DEF ReadInv
  <2>8. CASE ClearStrobe \/ UNCHANGED vars
    <3>1. UNCHANGED <<cmds, state, addr_l, tx, inbuf, rd, rdval, want>>
      BY <2>8 DEF ClearStrobe, vars, lineVars, fsmVars, hostVars
    <3>2. QED
      BY <2>0, <3>1 DEF ReadInv, NoRead, NoAnswer, ReadOnLine, ReadTaken, ReadAnswered, Answers
  <2>9. ~LoseByte /\ \A b \in NoiseBytes : ~SpuriousByte(b)
    BY NoiseGrows
  <2>q. QED
    BY <2>1, <2>2, <2>3, <2>4, <2>5, <2>6, <2>7, <2>8, <2>9 DEF Next
<1>3. ReadInv => ReadYourWrites
  BY DEF ReadInv, ReadYourWrites, Answers
<1>4. QED
  BY <1>1, <1>2, <1>3, Typing, TxInvariant, UndisturbedInStep, WantInvariant, PTL DEF Spec
-----------------------------------------------------------------------------
(* arm.py on the port.  Of its steps only Start, Interrupt and reg_read    *)
(* are not steps of CtrlRegs; they leave the line, the FSM and what the    *)
(* line has done alone, but for the command reg_read sends.                *)

\* One command at a time: a write has gone by before the program goes on.
OneCmd == cmds = <<>> \/ \E c \in Cmd : cmds = <<c>>

\* Every variable of arm.py keeps its type.
CliTypes ==
  /\ cmd \in {<<>>} \cup Commands /\ step \in Nat /\ got \in Seq(Byte)
  /\ last \in {<<>>} \cup {c \in Commands : Arms(c)}
  /\ over \in BOOLEAN /\ skew \in BOOLEAN

\* Arming commands have a protocol and three parameters, the others are bare words.
LEMMA CommandShape ==
  ASSUME NEW c \in Commands
  PROVE  /\ c # <<>>
         /\ c[1] \in {"arm", "i2c", "can", "disarm", "clr", "status"}
         /\ Arms(c) => c[2] \in Payload /\ c[3] \in Payload /\ c[4] \in Payload
<1>1. CASE c \in {"arm", "i2c", "can"} \X Payload \X Payload \X Payload
  <2>1. PICK k \in {"arm", "i2c", "can"}, x \in Payload, y \in Payload, z \in Payload :
               c = <<k, x, y, z>>
    BY <1>1
  <2>2. QED
    BY <2>1
<1>2. CASE c \in {<<"disarm">>, <<"clr">>, <<"status">>}
  BY <1>2 DEF Arms
<1>3. QED
  BY <1>1, <1>2, ArmOK DEF ArmOK

\* The accesses of an arming command: four parameters to four registers, then the enable bit.
Plan(c) ==
  CASE c[1] = "arm" -> << <<4, 0>>, <<3, c[4]>>, <<1, c[2]>>, <<2, c[3]>>, <<0, 1>> >>
    [] c[1] = "i2c" -> << <<4, 1>>, <<1, c[2]>>, <<2, c[3]>>, <<3, c[4]>>, <<0, 1>> >>
    [] c[1] = "can" -> << <<4, 2>>, <<1, c[2]>>, <<2, c[3]>>, <<3, c[4]>>, <<0, 1>> >>

LEMMA PlanFacts ==
  ASSUME NEW c \in Commands, Arms(c)
  PROVE  /\ Len(Plan(c)) = 5 /\ DOMAIN Plan(c) = 1 .. 5
         /\ \A i \in 1 .. 5 : /\ Len(Plan(c)[i]) = 2
                              /\ Plan(c)[i][1] \in 0 .. 4 /\ Plan(c)[i][2] \in Payload
         /\ \A i \in 1 .. 4 : Plan(c)[i][1] # 0
         /\ Plan(c)[5] = <<0, 1>>
         /\ \A i, j \in 1 .. 5 : i # j => Plan(c)[i][1] # Plan(c)[j][1]
<1>1. c[2] \in Payload /\ c[3] \in Payload /\ c[4] \in Payload /\ {0, 1, 2, 3} \subseteq Payload
  BY CommandShape, ArmOK DEF ArmOK
<1>2. CASE c[1] = "arm"
  <2>1. Plan(c) = << <<4, 0>>, <<3, c[4]>>, <<1, c[2]>>, <<2, c[3]>>, <<0, 1>> >>
    BY <1>2 DEF Plan
  <2>2. QED
    BY <1>1, <2>1
<1>3. CASE c[1] = "i2c"
  <2>1. Plan(c) = << <<4, 1>>, <<1, c[2]>>, <<2, c[3]>>, <<3, c[4]>>, <<0, 1>> >>
    BY <1>3 DEF Plan
  <2>2. QED
    BY <1>1, <2>1
<1>4. CASE c[1] = "can"
  <2>1. Plan(c) = << <<4, 2>>, <<1, c[2]>>, <<2, c[3]>>, <<3, c[4]>>, <<0, 1>> >>
    BY <1>4 DEF Plan
  <2>2. QED
    BY <1>1, <2>1
<1>5. QED
  BY <1>2, <1>3, <1>4 DEF Arms

LEMMA ArmScript ==
  ASSUME NEW c \in Commands, Arms(c)
  PROVE  Script(c) = Plan(c)
<1>1. CASE c[1] = "arm"
  BY <1>1 DEF Script, Plan
<1>2. CASE c[1] = "i2c"
  BY <1>2 DEF Script, Plan
<1>3. CASE c[1] = "can"
  BY <1>3 DEF Script, Plan
<1>4. QED
  BY <1>1, <1>2, <1>3 DEF Arms

\* The other commands: disarm writes 0, clr reads register 0 and writes it back with the
\* clear bit, status only reads.
LEMMA OtherScripts ==
  ASSUME got \in Seq(Byte), NEW c \in Commands
  PROVE  /\ c[1] = "disarm" => Script(c) = << <<0, 0>> >>
         /\ c[1] = "clr" => \E en \in {0, 1} : /\ Script(c) = << <<0>>, <<0, en + 2>> >>
                                               /\ got # <<>> => en = got[1] % 2
         /\ c[1] = "status" => Script(c) = << <<128>>, <<129>>, <<130>> >>
<1>1. c[1] = "disarm" => Script(c) = << <<0, 0>> >>
  BY DEF Script
<1>2. c[1] = "status" => Script(c) = << <<128>>, <<129>>, <<130>> >>
  BY DEF Script
<1>3. ASSUME c[1] = "clr"
      PROVE  \E en \in {0, 1} : /\ Script(c) = << <<0>>, <<0, en + 2>> >>
                                /\ got # <<>> => en = got[1] % 2
  <2> DEFINE en == IF got = <<>> THEN 0 ELSE got[1] % 2
  <2>1. Script(c) = << <<0>>, <<0, en + 2>> >>
    BY <1>3 DEF Script
  <2>2. CASE got = <<>>
    BY <2>1, <2>2
  <2>3. CASE got # <<>>
    <3>1. got[1] \in Nat
      BY <2>3, ByteNat
    <3>2. en \in {0, 1} /\ en = got[1] % 2
      BY <2>3, <3>1
    <3>3. QED
      BY <2>1, <3>2
  <2>4. QED
    BY <2>2, <2>3
<1>4. QED
  BY <1>1, <1>2, <1>3

\* Every access of a command is to an address of the port, with a byte the host writes.
LEMMA AccessTypes ==
  ASSUME CliTypes, cmd # <<>>, step < Len(Script(cmd))
  PROVE  /\ Script(cmd)[step + 1][1] \in Addrs
         /\ Len(Script(cmd)[step + 1]) = 2 => Script(cmd)[step + 1][2] \in Payload
<1>1. cmd \in Commands /\ step \in Nat /\ got \in Seq(Byte)
  BY DEF CliTypes
<1>2. {0, 1, 2, 3, 4, 128, 129, 130} \subseteq Addrs /\ {0, 1, 2, 3} \subseteq Payload
  BY ArmOK DEF ArmOK
<1>3. CASE Arms(cmd)
  <2>0. Script(cmd) = Plan(cmd) /\ Len(Plan(cmd)) = 5
    BY <1>1, <1>3, ArmScript, PlanFacts
  <2>1. step + 1 \in 1 .. 5
    BY <1>1, <2>0
  <2>2. Script(cmd)[step + 1][1] \in 0 .. 4 /\ Script(cmd)[step + 1][2] \in Payload
    BY <1>1, <1>3, <2>0, <2>1, PlanFacts
  <2>3. QED
    BY <1>2, <2>2
<1>4. CASE cmd[1] = "disarm"
  <2>1. Script(cmd) = << <<0, 0>> >>
    BY <1>1, <1>4, OtherScripts
  <2>2. QED
    BY <1>1, <1>2, <2>1
<1>5. CASE cmd[1] = "clr"
  <2>1. PICK en \in {0, 1} : Script(cmd) = << <<0>>, <<0, en + 2>> >>
    BY <1>1, <1>5, OtherScripts
  <2>2. en + 2 \in Payload /\ step + 1 \in {1, 2}
    BY <1>1, <1>2, <2>1
  <2>3. QED
    BY <1>2, <2>1, <2>2
<1>6. CASE cmd[1] = "status"
  <2>1. Script(cmd) = << <<128>>, <<129>>, <<130>> >>
    BY <1>1, <1>6, OtherScripts
  <2>2. step + 1 \in {1, 2, 3}
    BY <1>1, <2>1
  <2>3. QED
    BY <1>2, <2>1, <2>2
<1>7. QED
  BY <1>1, <1>3, <1>4, <1>5, <1>6, CommandShape DEF Arms

\* reg_read's command replaces nothing: the line was empty.
LEMMA ReadSends ==
  ASSUME CliTypes, TypeOK, reg_read
  PROVE  \E a \in Addrs :
           /\ a = Script(cmd)[step + 1][1]
           /\ cmds = <<>> /\ cmds' = <<[op |-> "R", addr |-> a]>> /\ rd = <<>> /\ rd' = <<a>>
           /\ [op |-> "R", addr |-> a] \in Cmd
           /\ cmds' = Append(cmds, [op |-> "R", addr |-> a])
<1>1. cmd # <<>> /\ step < Len(Script(cmd)) /\ rd = <<>> /\ cmds = <<>>
  BY DEF reg_read, Idle
<1> DEFINE a == Script(cmd)[step + 1][1]
<1>2. a \in Addrs
  BY <1>1, AccessTypes
<1>3. cmds' = <<[op |-> "R", addr |-> a]>> /\ rd' = <<a>>
  BY DEF reg_read
<1>4. [op |-> "R", addr |-> a] \in Cmd
  BY <1>2 DEF Cmd
<1>5. <<[op |-> "R", addr |-> a]>> = Append(cmds, [op |-> "R", addr |-> a])
  BY <1>1
<1>6. QED
  BY <1>1, <1>2, <1>3, <1>4, <1>5

\* What Start and Interrupt leave alone.
Elsewhere == <<lineVars, fsmVars, tx, txLate, want, noise, dirty>>

\* A step of arm.py, on the port.
LEMMA ArmSteps ==
  ASSUME TypeOK, CliTypes, [ArmNext]_armVars
  PROVE  \/ [Next]_vars
         \/ \E c \in Commands : Start(c)
         \/ reg_read
         \/ Interrupt
<1>1. CASE reg_write
  <2>1. PICK a, d : a = Script(cmd)[step + 1][1] /\ d = Script(cmd)[step + 1][2]
    OBVIOUS
  <2>2. HostWrite(a, d)
    BY <1>1, <2>1 DEF reg_write
  <2>3. cmd # <<>> /\ step < Len(Script(cmd)) /\ Len(Script(cmd)[step + 1]) = 2
    BY <1>1 DEF reg_write, Idle
  <2>4. a \in Addrs /\ d \in Payload
    BY <2>1, <2>3, AccessTypes
  <2>5. QED
    BY <2>2, <2>4 DEF Next
<1>2. CASE Recv \/ NoResponse \/ Exit
  BY <1>2 DEF Recv, NoResponse, Exit, Next
<1>3. CASE (Deliver \/ LoseByte \/ S_R_SEND \/ ClearStrobe \/ TxDone) /\ UNCHANGED cliVars
  BY <1>3 DEF Next
<1>4. CASE \E b \in NoiseBytes : SpuriousByte(b)
  BY <1>4 DEF Next
<1>5. CASE UNCHANGED armVars
  BY <1>5 DEF armVars
<1>6. QED
  BY <1>1, <1>2, <1>3, <1>4, <1>5 DEF ArmNext

LEMMA Untouched ==
  ASSUME (\E c \in Commands : Start(c)) \/ Interrupt
  PROVE  /\ UNCHANGED Elsewhere
         /\ inbuf' \in {<<>>, inbuf} /\ rd' \in {<<>>, rd} /\ rdval' = rdval
  BY DEF Start, Interrupt, Elsewhere, hostVars

\* The port's own invariants, under arm.py.
PortInv == TypeOK /\ PosOK /\ TxInv

LEMMA PortStep ==
  ASSUME PortInv, CliTypes, [ArmNext]_armVars
  PROVE  PortInv'
<1>1. CASE [Next]_vars
  BY <1>1, TypeStep, PortTxStep DEF PortInv
<1>2. CASE (\E c \in Commands : Start(c)) \/ Interrupt
  <2>1. /\ UNCHANGED Elsewhere
        /\ inbuf' \in {<<>>, inbuf} /\ rd' \in {<<>>, rd} /\ rdval' = rdval
    BY <1>2, Untouched
  <2>2. inbuf \in Seq(Byte) /\ <<>> \in Seq(Byte)
    BY DEF PortInv, TypeOK
  <2>3. inbuf' \in Seq(Byte)
    BY <2>1, <2>2, Zenon
  <2>4. QED
    BY <2>1, <2>3 DEF PortInv, TypeOK, PosOK, TxInv, Elsewhere, lineVars, fsmVars
<1>3. CASE reg_read
  <2>1. PICK a \in Addrs : /\ rd' = <<a>> /\ [op |-> "R", addr |-> a] \in Cmd
                           /\ cmds' = <<[op |-> "R", addr |-> a]>> /\ cmds = <<>>
    BY <1>3, ReadSends DEF PortInv
  <2>2. /\ UNCHANGED <<pos, fsmVars, tx, txLate, want, noise, dirty>>
        /\ inbuf' = <<>> /\ rdval' = <<>>
    BY <1>3 DEF reg_read
  <2>3. cmds' \in Seq(Cmd) /\ cmds' # <<>> /\ inbuf' \in Seq(Byte)
    BY <2>1, <2>2
  <2>4. pos = 0
    BY <2>1 DEF PortInv, PosOK, TypeOK
  <2>5. QED
    BY <2>1, <2>2, <2>3, <2>4 DEF PortInv, TypeOK, PosOK, TxInv, fsmVars
<1>4. QED
  BY <1>1, <1>2, <1>3, ArmSteps DEF PortInv

LEMMA CliStep ==
  ASSUME TypeOK, CliTypes, [ArmNext]_armVars
  PROVE  CliTypes'
<1>0. /\ cmd \in {<<>>} \cup Commands /\ step \in Nat /\ got \in Seq(Byte)
      /\ last \in {<<>>} \cup {c \in Commands : Arms(c)}
      /\ over \in BOOLEAN /\ skew \in BOOLEAN
  BY DEF CliTypes
<1>1. ASSUME NEW c \in Commands, Start(c) PROVE CliTypes'
  <2>1. /\ cmd' = c /\ step' = 0 /\ got' = <<>>
        /\ last' = IF Arms(c) THEN c ELSE last
        /\ over' = (over \/ (Arms(c) /\ Enabled))
        /\ skew' = (dirty # 0)
    BY <1>1 DEF Start
  <2>2. over' \in BOOLEAN /\ skew' \in BOOLEAN
    BY <2>1, Zenon
  <2>3. last' \in {<<>>} \cup {x \in Commands : Arms(x)}
    BY <1>0, <2>1
  <2>4. QED
    BY <2>1, <2>2, <2>3 DEF CliTypes, Arms
<1>2. CASE Recv
  <2>1. got' = Append(got, Head(inbuf)) /\ Head(inbuf) \in Byte /\ step' = step + 1
        /\ UNCHANGED <<cmd, last, over, skew>>
    BY <1>2 DEF Recv, TypeOK
  <2>2. got' \in Seq(Byte)
    BY <1>0, <2>1
  <2>3. QED
    BY <1>0, <2>1, <2>2 DEF CliTypes, Arms
<1>3. CASE Exit
  <2>1. cmd' = <<>> /\ over' = (over /\ ~Arms(cmd)) /\ UNCHANGED <<step, got, last, skew>>
    BY <1>3 DEF Exit
  <2>2. over' \in BOOLEAN
    BY <2>1, Zenon
  <2>3. QED
    BY <1>0, <2>1, <2>2 DEF CliTypes, Arms
<1>4. CASE reg_write
  BY <1>0, <1>4 DEF reg_write, CliTypes, Arms
<1>5. CASE reg_read
  BY <1>0, <1>5 DEF reg_read, CliTypes, Arms, cliVars
<1>6. CASE NoResponse \/ Interrupt
  BY <1>0, <1>6 DEF NoResponse, Interrupt, CliTypes, Arms
<1>7. CASE UNCHANGED cliVars
  BY <1>0, <1>7 DEF cliVars, CliTypes, Arms
<1>8. CASE skew' = TRUE /\ UNCHANGED <<cmd, step, got, starts, last, over>>
  <2>1. skew' \in BOOLEAN
    BY <1>8, Zenon
  <2>2. QED
    BY <1>0, <1>8, <2>1 DEF CliTypes, Arms
<1>9. QED
  BY <1>1, <1>2, <1>3, <1>4, <1>5, <1>6, <1>7, <1>8 DEF ArmNext, armVars, cliVars

\* No second command goes out before the first has gone by.
LEMMA OneCmdStep ==
  ASSUME PortInv, CliTypes, OneCmd, [ArmNext]_armVars
  PROVE  OneCmd'
<1>1. ASSUME NEW c \in Cmd, cmds = <<>>, cmds' = Append(cmds, c) PROVE OneCmd'
  <2>1. cmds' = <<c>>
    BY <1>1
  <2>2. QED
    BY <2>1 DEF OneCmd
<1>2. ASSUME cmds' = Tail(cmds), cmds # <<>> PROVE OneCmd'
  <2>1. PICK c \in Cmd : cmds = <<c>>
    BY <1>2 DEF OneCmd
  <2>2. cmds' = <<>>
    BY <1>2, <2>1
  <2>3. QED
    BY <2>2 DEF OneCmd
<1>3. CASE cmds' = cmds
  BY <1>3 DEF OneCmd
<1>4. CASE reg_write
  <2>1. PICK a, d : a = Script(cmd)[step + 1][1] /\ d = Script(cmd)[step + 1][2]
    OBVIOUS
  <2>2. cmds' = Append(cmds, [op |-> "W", addr |-> a, data |-> d])
    BY <1>4, <2>1 DEF reg_write, HostWrite
  <2>3. cmds = <<>> /\ cmd # <<>> /\ step < Len(Script(cmd)) /\ Len(Script(cmd)[step + 1]) = 2
    BY <1>4 DEF reg_write, Idle
  <2>4. a \in Addrs /\ d \in Payload
    BY <2>1, <2>3, AccessTypes
  <2>5. [op |-> "W", addr |-> a, data |-> d] \in Cmd
    BY <2>4 DEF Cmd
  <2>6. QED
    BY <1>1, <2>2, <2>3, <2>5
<1>5. CASE reg_read
  BY <1>1, <1>5, ReadSends DEF PortInv
<1>6. CASE Deliver \/ LoseByte
  BY <1>2, <1>3, <1>6 DEF Deliver, LoseByte, Advance
<1>7. QED
  BY <1>3, <1>4, <1>5, <1>6
     DEF ArmNext, Start, Recv, HostRecv, NoResponse, HostTimeout, Exit, Interrupt, S_R_SEND,
         ClearStrobe, TxDone, SpuriousByte, lineVars, vars, armVars

LEMMA ArmStepKept ==
  ASSUME PortInv, CliTypes, StepInv, NoCodes \/ noise = 0, [ArmNext]_armVars
  PROVE  StepInv'
<1>1. CASE [Next]_vars
  BY <1>1, StepKept DEF PortInv
<1>2. CASE (\E c \in Commands : Start(c)) \/ Interrupt
  <2>1. UNCHANGED Elsewhere
    BY <1>2, Untouched
  <2>2. QED
    BY <2>1 DEF Elsewhere, lineVars, fsmVars, StepInv, InStep, Resyncing
<1>3. CASE reg_read
  <2>1. PICK c \in Cmd : cmds' = Append(cmds, c)
    BY <1>3, ReadSends DEF PortInv
  <2>2. UNCHANGED <<pos, state, addr_l, wr, dirty, noise>>
    BY <1>3 DEF reg_read, fsmVars
  <2>3. QED
    BY <2>1, <2>2, StepAppends DEF PortInv
<1>4. QED
  BY <1>1, <1>2, <1>3, ArmSteps DEF PortInv

\* The faults only grow in number, and each shows in dirty.
LEMMA ArmNoise ==
  ASSUME PortInv, CliTypes, [ArmNext]_armVars, noise' = 0
  PROVE  noise = 0
<1>1. CASE [Next]_vars
  BY <1>1, NoiseGrows DEF PortInv
<1>2. CASE UNCHANGED noise
  BY <1>2
<1>3. QED
  BY <1>1, <1>2, ArmSteps, Untouched DEF PortInv, Elsewhere, reg_read

\* The byte that completes a command in step, and one that does not.
LEMMA DeliverClean ==
  ASSUME PortInv, StepInv, OneCmd, Deliver, dirty = 0
  PROVE  /\ dirty' = 0 /\ UNCHANGED <<tx, inbuf, rd>>
         /\ \/ cmds' = cmds /\ regs' = regs /\ state' # "S_R_SEND"
            \/ /\ cmds' = <<>> /\ cmds[1].op = "W" /\ state' # "S_R_SEND"
               /\ regs' = IF cmds[1].addr < NREGS
                          THEN [regs EXCEPT ![cmds[1].addr] = cmds[1].data] ELSE regs
            \/ /\ cmds' = <<>> /\ cmds[1].op = "R" /\ regs' = regs
               /\ state' = "S_R_SEND" /\ addr_l' = cmds[1].addr
<1>1. PICK b \in Byte :
        /\ pos = 0 => b = IF Head(cmds).op = "W" THEN CMD_W ELSE CMD_R
        /\ pos = 1 => b = Head(cmds).addr
        /\ pos = 2 => b = Head(cmds).data
        /\ S_IDLE(b) \/ S_W_ADDR(b) \/ S_W_DATA(b) \/ S_R_ADDR(b)
  BY DeliverFacts DEF PortInv
<1>2. /\ cmds # <<>> /\ Head(cmds) \in Cmd
      /\ cmds' = IF LastByte THEN Tail(cmds) ELSE cmds
      /\ dirty' = 0 /\ UNCHANGED <<tx, inbuf, rd>>
  BY DeliverFacts DEF PortInv, Deliver, Rx, hostVars
<1>3. PICK c \in Cmd : cmds = <<c>>
  BY <1>2 DEF OneCmd
<1>4. Head(cmds) = c /\ Tail(cmds) = <<>> /\ cmds[1] = c /\ c.op \in {"W", "R"}
  BY <1>3, EncodeOf
<1>5. CASE pos = 0
  <2>1. state = "S_IDLE" /\ ~LastByte
    BY <1>1, <1>5 DEF StepInv, InStep, S_IDLE, S_W_ADDR, S_W_DATA, S_R_ADDR, LastByte
  <2>2. regs' = regs /\ state' # "S_R_SEND"
    BY <1>1, <2>1 DEF S_IDLE, S_W_ADDR, S_W_DATA, S_R_ADDR
  <2>3. QED
    BY <1>2, <2>1, <2>2
<1>6. CASE pos = 1 /\ c.op = "W"
  <2>1. state = "S_W_ADDR" /\ ~LastByte
    BY <1>4, <1>6 DEF StepInv, InStep, LastByte
  <2>2. regs' = regs /\ state' = "S_W_DATA"
    BY <1>1, <2>1 DEF S_IDLE, S_W_ADDR, S_W_DATA, S_R_ADDR
  <2>3. QED
    BY <1>2, <2>1, <2>2
<1>7. CASE pos = 1 /\ c.op = "R"
  <2>1. state = "S_R_ADDR" /\ LastByte
    BY <1>4, <1>7 DEF StepInv, InStep, LastByte
  <2>2. regs' = regs /\ state' = "S_R_SEND" /\ addr_l' = c.addr
    BY <1>1, <1>4, <1>7, <2>1 DEF S_IDLE, S_W_ADDR, S_W_DATA, S_R_ADDR
  <2>3. QED
    BY <1>2, <1>4, <1>7, <2>1, <2>2
<1>8. CASE pos = 2
  <2>1. state = "S_W_DATA" /\ addr_l = c.addr /\ c.op = "W" /\ LastByte
    BY <1>4, <1>8 DEF StepInv, InStep, LastByte
  <2>2. /\ state' = "S_IDLE"
        /\ regs' = IF c.addr < NREGS THEN [regs EXCEPT ![c.addr] = c.data] ELSE regs
    BY <1>1, <1>4, <1>8, <2>1 DEF S_IDLE, S_W_ADDR, S_W_DATA, S_R_ADDR
  <2>3. QED
    BY <1>2, <1>4, <2>1, <2>2
<1>9. QED
  BY <1>4, <1>5, <1>6, <1>7, <1>8 DEF PortInv, TypeOK

-----------------------------------------------------------------------------
(* clr, from its start to its end.                                         *)

\* Nobody waits for an answer but a program that reads.
NobodyElse == cmd = <<>> => rd = <<>>

NothingBack == state # "S_R_SEND" /\ tx = <<>> /\ inbuf = <<>>

\* clr has not read yet ...
ClrBegins == step = 0 /\ rd = <<>> /\ cmds = <<>> /\ got = <<>> /\ state # "S_R_SEND" /\ tx = <<>>

\* ... waits for register 0, asked for, taken, on its way back, there ...
Asked    == cmds = <<[op |-> "R", addr |-> 0]>> /\ NothingBack
Taken    == cmds = <<>> /\ state = "S_R_SEND" /\ addr_l = 0 /\ tx = <<>> /\ inbuf = <<>>
Answered == cmds = <<>> /\ state # "S_R_SEND" /\ tx = <<regs[0]>> /\ inbuf = <<>>
There    == cmds = <<>> /\ state # "S_R_SEND" /\ tx = <<>> /\ inbuf = <<regs[0]>>
ClrReads == step = 0 /\ rd = <<0>> /\ got = <<>> /\ (Asked \/ Taken \/ Answered \/ There)

\* ... has it ...
ClrHas == step = 1 /\ rd = <<>> /\ cmds = <<>> /\ got = <<regs[0]>>

\* ... has written it back with the clear bit.
ClrWrites ==
  /\ step = 2 /\ rd = <<>>
  /\ cmds # <<>> => \E d \in Payload : /\ cmds = <<[op |-> "W", addr |-> 0, data |-> d]>>
                                       /\ d % 2 = regs[0] % 2

\* The line hit one of its commands: no answer comes, or the write is all but over.
HitRead ==
  /\ step = 0 /\ rd = <<0>> /\ NothingBack
  /\ \/ cmds = <<>> /\ dirty = 1
     \/ cmds = <<[op |-> "R", addr |-> 0]>> /\ pos = 1 /\ dirty = 2 /\ state = "S_IDLE"
HitWrite ==
  /\ step = 2 /\ rd = <<>>
  /\ \/ cmds = <<>> /\ dirty = 1
     \/ cmds # <<>> /\ pos # 0 /\ dirty = 2

Clears == cmd # <<>> /\ cmd[1] = "clr" /\ ~skew

ClrInv ==
  Clears => IF dirty = 0 THEN ClrBegins \/ ClrReads \/ ClrHas \/ ClrWrites
            ELSE HitRead \/ HitWrite

LEMMA NobodyElseStep ==
  ASSUME NobodyElse, [ArmNext]_armVars
  PROVE  NobodyElse'
<1>1. CASE rd' = <<>>
  BY <1>1 DEF NobodyElse
<1>2. CASE UNCHANGED <<cmd, rd>>
  BY <1>2 DEF NobodyElse
<1>3. ASSUME NEW c \in Commands, Start(c) PROVE NobodyElse'
  <2>1. cmd' # <<>>
    BY <1>3, CommandShape DEF Start
  <2>2. QED
    BY <2>1 DEF NobodyElse
<1>4. CASE reg_read
  <2>1. cmd' # <<>>
    BY <1>4 DEF reg_read, Idle, cliVars
  <2>2. QED
    BY <2>1 DEF NobodyElse
<1>5. QED
  BY <1>1, <1>2, <1>3, <1>4
     DEF ArmNext, reg_write, HostWrite, Recv, HostRecv, NoResponse, HostTimeout, Exit, Idle, Interrupt,
         Deliver, LoseByte, SpuriousByte, Rx, S_R_SEND, ClearStrobe, TxDone, cliVars, hostVars, vars,
         armVars

\* The line hits a command: it goes on to be hit, or is over.
LEMMA LoseFacts ==
  ASSUME PortInv, OneCmd, LoseByte
  PROVE  /\ \/ cmds' = <<>> /\ pos' = 0 /\ dirty' = 1
            \/ cmds' = cmds /\ pos' = pos + 1 /\ pos' # 0 /\ dirty' = 2
         /\ cmds # <<>> /\ (cmds[1].op = "R" /\ pos = 1 => cmds' = <<>>)
         /\ UNCHANGED <<state, addr_l, regs, tx, inbuf, rd>>
<1>1. /\ cmds # <<>> /\ pos \in 0 .. 2
      /\ pos'  = (IF LastByte THEN 0 ELSE pos + 1)
      /\ cmds' = (IF LastByte THEN Tail(cmds) ELSE cmds)
      /\ dirty' = (IF pos' = 0 THEN 1 ELSE 2)
      /\ UNCHANGED <<state, addr_l, regs, tx, inbuf, rd>>
  BY DEF LoseByte, Advance, Disturbed, fsmVars, hostVars, PortInv, TypeOK
<1>2. PICK c \in Cmd : cmds = <<c>>
  BY <1>1 DEF OneCmd
<1>3. Tail(cmds) = <<>> /\ Head(cmds) = c /\ cmds[1] = c
  BY <1>2
<1>4. cmds[1].op = "R" /\ pos = 1 => LastByte
  BY <1>3 DEF LastByte
<1>5. CASE LastByte
  BY <1>1, <1>3, <1>5
<1>6. CASE ~LastByte
  <2>1. cmds' = cmds /\ pos' = pos + 1 /\ pos' # 0
    BY <1>1, <1>6
  <2>2. dirty' = 2
    BY <1>1, <2>1
  <2>3. QED
    BY <1>1, <1>4, <1>6, <2>1, <2>2
<1>7. QED
  BY <1>5, <1>6

\* A clean step of clr.
LEMMA ClrCleanStep ==
  ASSUME PortInv, CliTypes, OneCmd, StepInv, [ArmNext]_armVars, Clears, Clears', cmd' = cmd,
         dirty = 0, ClrBegins \/ ClrReads \/ ClrHas \/ ClrWrites
  PROVE  IF dirty' = 0 THEN (ClrBegins \/ ClrReads \/ ClrHas \/ ClrWrites)'
         ELSE (HitRead \/ HitWrite)'
<1>0. /\ cmd \in Commands /\ cmd[1] = "clr" /\ ~skew' /\ cmd # <<>> /\ got \in Seq(Byte)
      /\ regs[0] \in Byte /\ 0 < NREGS /\ tx \in Seq(Byte) /\ inbuf \in Seq(Byte)
  <2>1. 0 \in Reg /\ 0 < NREGS
    BY ConstantsOK, ArmOK DEF ConstantsOK, ArmOK, Reg
  <2>2. tx \in Seq(Byte) /\ inbuf \in Seq(Byte)
    BY TxIsSeq DEF PortInv
  <2>3. QED
    BY <2>1, <2>2 DEF Clears, CliTypes, PortInv, TypeOK
<1>1. PICK en \in {0, 1} : /\ Script(cmd) = << <<0>>, <<0, en + 2>> >>
                           /\ got # <<>> => en = got[1] % 2
  BY <1>0, OtherScripts
<1>2. CASE reg_write
  <2>1. step = 1 /\ dirty' = 0 /\ rd' = rd /\ step' = step + 1 /\ regs' = regs /\ cmds = <<>> /\ rd = <<>>
        /\ cmds' = Append(cmds, [op |-> "W", addr |-> 0, data |-> en + 2])
    <3>1. step < 2 /\ Len(Script(cmd)[step + 1]) = 2 /\ step \in Nat
      BY <1>1, <1>2 DEF reg_write, CliTypes
    <3>2. step = 1
      <4>1. step = 0 \/ step = 1
        BY <3>1
      <4>2. Script(cmd)[1] = <<0>>
        BY <1>1
      <4>3. step = 0 => Len(Script(cmd)[step + 1]) = 1
        <5>1. step = 0 => step + 1 = 1
          OBVIOUS
        <5>2. Len(<<0>>) = 1
          OBVIOUS
        <5>3. QED
          BY <4>2, <5>1, <5>2
      <4>4. QED
        BY <3>1, <4>1, <4>3
    <3>3. Script(cmd)[step + 1][1] = 0 /\ Script(cmd)[step + 1][2] = en + 2
      BY <1>1, <3>2
    <3>4. QED
      BY <1>2, <3>2, <3>3 DEF reg_write, HostWrite, Idle, fsmVars
  <2>2. cmds' = <<[op |-> "W", addr |-> 0, data |-> en + 2]>> /\ en + 2 \in Payload
    BY <1>0, <2>1, ArmOK DEF ArmOK
  <2>3. got = <<regs[0]>>
    BY <2>1 DEF ClrBegins, ClrReads, ClrHas, ClrWrites
  <2>4. en = regs[0] % 2
    BY <1>1, <2>3
  <2>5. (en + 2) % 2 = regs'[0] % 2
    BY <1>0, <2>1, <2>4, ByteNat
  <2>6. ClrWrites'
    BY <2>1, <2>2, <2>5 DEF ClrWrites
  <2>7. QED
    BY <2>1, <2>6
<1>3. CASE reg_read
  <2>1. PICK a \in Addrs : /\ a = Script(cmd)[step + 1][1] /\ cmds = <<>> /\ rd = <<>> /\ rd' = <<a>>
                           /\ cmds' = <<[op |-> "R", addr |-> a]>>
    BY <1>3, ReadSends DEF PortInv
  <2>2. step < 2 /\ Len(Script(cmd)[step + 1]) = 1 /\ step \in Nat
    BY <1>1, <1>3 DEF reg_read, CliTypes
  <2>3. step = 0 /\ a = 0
    BY <1>1, <2>1, <2>2
  <2>4. inbuf' = <<>> /\ UNCHANGED <<state, tx, dirty, step, got>>
    BY <1>3 DEF reg_read, fsmVars, cliVars
  <2>5. ClrBegins
    BY <2>1, <2>3 DEF ClrReads, ClrHas, ClrWrites
  <2>6. ClrReads'
    BY <2>1, <2>3, <2>4, <2>5 DEF ClrBegins, ClrReads, Asked, NothingBack
  <2>7. QED
    BY <2>4, <2>6
<1>4. CASE Recv
  <2>1. /\ rd # <<>> /\ inbuf # <<>> /\ got' = Append(got, Head(inbuf)) /\ step' = step + 1 /\ rd' = <<>>
        /\ UNCHANGED <<cmds, regs, dirty>>
    BY <1>4 DEF Recv, HostRecv, lineVars, fsmVars
  <2>2. ClrReads /\ There
    BY <2>1 DEF ClrBegins, ClrReads, ClrHas, ClrWrites, Asked, NothingBack, Taken, Answered
  <2>3. got' = <<regs[0]>> /\ step' = 1
    BY <1>0, <2>1, <2>2 DEF ClrReads, There
  <2>4. ClrHas'
    BY <2>1, <2>2, <2>3 DEF There, ClrHas
  <2>5. QED
    BY <2>1, <2>4
<1>5. CASE Deliver /\ UNCHANGED cliVars
  <2>1. /\ dirty' = 0 /\ UNCHANGED <<tx, inbuf, rd, step, got>>
        /\ \/ cmds' = cmds /\ regs' = regs /\ state' # "S_R_SEND"
           \/ /\ cmds' = <<>> /\ cmds[1].op = "W" /\ state' # "S_R_SEND"
           \/ /\ cmds' = <<>> /\ cmds[1].op = "R" /\ regs' = regs
              /\ state' = "S_R_SEND" /\ addr_l' = cmds[1].addr
    BY <1>5, DeliverClean DEF cliVars
  <2>2. cmds # <<>>
    BY <1>5 DEF Deliver, Advance
  <2>3. CASE ClrWrites
    BY <2>1, <2>3 DEF ClrWrites
  <2>4. CASE ClrReads
    <3>1. Asked
      BY <2>2, <2>4 DEF ClrReads, Taken, Answered, There
    <3>2. cmds[1].op = "R" /\ cmds[1].addr = 0
      BY <3>1 DEF Asked
    <3>3. Asked' \/ Taken'
      BY <2>1, <3>1, <3>2 DEF Asked, Taken, NothingBack
    <3>4. QED
      BY <2>1, <2>4, <3>3 DEF ClrReads
  <2>5. QED
    BY <2>2, <2>3, <2>4 DEF ClrBegins, ClrHas
<1>6. CASE LoseByte /\ UNCHANGED cliVars
  <2>1. /\ \/ cmds' = <<>> /\ pos' = 0 /\ dirty' = 1
           \/ cmds' = cmds /\ pos' = pos + 1 /\ pos' # 0 /\ dirty' = 2
        /\ cmds # <<>> /\ (cmds[1].op = "R" /\ pos = 1 => cmds' = <<>>)
        /\ UNCHANGED <<state, addr_l, regs, tx, inbuf, rd, step, got>>
    BY <1>6, LoseFacts DEF cliVars
  <2>2. CASE ClrWrites
    <3>1. HitWrite'
      BY <2>1, <2>2 DEF ClrWrites, HitWrite
    <3>2. QED
      BY <2>1, <3>1
  <2>3. CASE ClrReads
    <3>1. Asked
      BY <2>1, <2>3 DEF ClrReads, Taken, Answered, There
    <3>2. cmds[1].op = "R" /\ cmds[1].addr = 0 /\ Head(cmds).op = "R"
      BY <3>1 DEF Asked
    <3>3. (pos = 0 /\ state = "S_IDLE") \/ pos = 1
      BY <3>1, <3>2 DEF StepInv, InStep, Asked, NothingBack
    <3>4. HitRead'
      BY <2>1, <2>3, <3>1, <3>2, <3>3 DEF ClrReads, Asked, HitRead, NothingBack
    <3>5. QED
      BY <2>1, <3>4
  <2>4. QED
    BY <2>1, <2>2, <2>3 DEF ClrBegins, ClrHas
<1>7. CASE S_R_SEND /\ UNCHANGED cliVars
  <2>1. /\ state = "S_R_SEND" /\ state' = "S_IDLE" /\ tx = <<>>
        /\ UNCHANGED <<cmds, regs, inbuf, rd, dirty, step, got>>
        /\ \E v \in ReadReg(addr_l) : tx' = <<v>>
    BY <1>7 DEF S_R_SEND, lineVars, hostVars, cliVars
  <2>2. CASE ClrHas \/ ClrWrites
    BY <2>1, <2>2 DEF ClrHas, ClrWrites
  <2>3. CASE ClrReads
    <3>1. Taken
      BY <2>1, <2>3 DEF ClrReads, Asked, NothingBack, Answered, There
    <3>2. ReadReg(addr_l) = {regs[0]}
      BY <1>0, <3>1 DEF Taken, ReadReg, STATUS_BASE
    <3>3. Answered'
      BY <2>1, <3>1, <3>2 DEF Taken, Answered
    <3>4. QED
      BY <2>1, <2>3, <3>3 DEF ClrReads
  <2>4. QED
    BY <2>1, <2>2, <2>3 DEF ClrBegins
<1>8. CASE TxDone /\ UNCHANGED cliVars
  <2>1. /\ tx # <<>> /\ inbuf' = inbuf \o tx /\ tx' = <<>>
        /\ UNCHANGED <<cmds, state, regs, rd, dirty, step, got>>
    BY <1>8 DEF TxDone, lineVars, fsmVars, hostVars, cliVars
  <2>2. CASE ClrHas \/ ClrWrites
    BY <2>1, <2>2 DEF ClrHas, ClrWrites
  <2>3. CASE ClrReads
    <3>1. Answered
      BY <2>1, <2>3 DEF ClrReads, Asked, NothingBack, Taken, There
    <3>2. inbuf' = <<regs[0]>>
      BY <1>0, <2>1, <3>1 DEF Answered
    <3>3. There'
      BY <2>1, <3>1, <3>2 DEF Answered, There
    <3>4. QED
      BY <2>1, <2>3, <3>3 DEF ClrReads
  <2>4. QED
    BY <2>1, <2>2, <2>3 DEF ClrBegins
<1>9. CASE UNCHANGED <<cmds, state, addr_l, regs, tx, inbuf, rd, dirty, step, got>>
  BY <1>9 DEF ClrBegins, ClrReads, Asked, Taken, Answered, There, NothingBack, ClrHas, ClrWrites
<1>10. ASSUME NEW c \in Commands, Start(c) PROVE FALSE
  BY <1>0, <1>10 DEF Start
<1>11. ~NoResponse /\ ~Exit /\ ~Interrupt
  BY <1>0 DEF NoResponse, Exit, Interrupt, Clears
<1>12. \A b \in NoiseBytes : SpuriousByte(b) => skew' # TRUE
  BY <1>0
<1>13. (ClearStrobe /\ UNCHANGED cliVars) \/ UNCHANGED armVars
       => UNCHANGED <<cmds, state, addr_l, regs, tx, inbuf, rd, dirty, step, got>>
  BY DEF ClearStrobe, cliVars, armVars, vars, lineVars, fsmVars, hostVars
<1>14. QED
  BY <1>0, <1>2, <1>3, <1>4, <1>5, <1>6, <1>7, <1>8, <1>9, <1>10, <1>11, <1>13 DEF ArmNext

\* A step of clr once the line has hit it.
LEMMA ClrHitStep ==
  ASSUME PortInv, CliTypes, OneCmd, [ArmNext]_armVars, Clears, Clears', cmd' = cmd,
         dirty # 0, HitRead \/ HitWrite
  PROVE  dirty' # 0 /\ (HitRead \/ HitWrite)'
<1>0. /\ cmd \in Commands /\ cmd[1] = "clr" /\ ~skew' /\ cmd # <<>> /\ got \in Seq(Byte)
      /\ pos \in 0 .. 2 /\ step \in Nat
  BY DEF Clears, CliTypes, PortInv, TypeOK
<1>1. PICK en \in {0, 1} : Script(cmd) = << <<0>>, <<0, en + 2>> >>
  BY <1>0, OtherScripts
<1>2. ~reg_write /\ ~reg_read
  <2>1. Len(Script(cmd)) = 2
    BY <1>1
  <2>2. QED
    BY <2>1 DEF reg_write, reg_read, Idle, HitRead, HitWrite
<1>3. ~Recv
  BY DEF Recv, HostRecv, HitRead, HitWrite, NothingBack
<1>4. CASE Deliver /\ UNCHANGED cliVars
  <2>1. PICK b \in Byte : S_IDLE(b) \/ S_W_ADDR(b) \/ S_W_DATA(b) \/ S_R_ADDR(b)
    BY <1>4, DeliverFacts DEF PortInv
  <2>2. /\ cmds # <<>> /\ UNCHANGED <<tx, inbuf, rd, step>>
        /\ pos' = (IF LastByte THEN 0 ELSE pos + 1)
        /\ cmds' = (IF LastByte THEN Tail(cmds) ELSE cmds)
        /\ dirty' = (IF LastByte /\ dirty > 0 THEN dirty - 1 ELSE dirty)
    BY <1>4, DeliverFacts DEF PortInv, Deliver, Rx, hostVars, cliVars
  <2>3. PICK c \in Cmd : cmds = <<c>>
    BY <2>2 DEF OneCmd
  <2>4. Tail(cmds) = <<>> /\ Head(cmds) = c
    BY <2>3
  <2>5. CASE HitRead
    <3>1. cmds = <<[op |-> "R", addr |-> 0]>> /\ pos = 1 /\ dirty = 2 /\ state = "S_IDLE"
      BY <2>2, <2>5 DEF HitRead
    <3>2. LastByte
      BY <3>1 DEF LastByte
    <3>3. cmds' = <<>> /\ dirty' = 1
      BY <2>2, <2>4, <3>1, <3>2
    <3>4. state' # "S_R_SEND"
      BY <2>1, <3>1 DEF S_IDLE, S_W_ADDR, S_W_DATA, S_R_ADDR
    <3>5. QED
      BY <2>2, <2>5, <3>3, <3>4 DEF HitRead, NothingBack
  <2>6. CASE HitWrite
    <3>1. pos # 0 /\ dirty = 2
      BY <2>2, <2>6 DEF HitWrite
    <3>2. (cmds' = <<>> /\ dirty' = 1) \/ (cmds' = cmds /\ pos' # 0 /\ dirty' = 2)
      BY <1>0, <2>2, <2>4, <3>1
    <3>3. QED
      BY <2>2, <2>6, <3>2 DEF HitWrite
  <2>7. QED
    BY <2>5, <2>6
<1>5. CASE LoseByte /\ UNCHANGED cliVars
  <2>1. /\ \/ cmds' = <<>> /\ pos' = 0 /\ dirty' = 1
           \/ cmds' = cmds /\ pos' = pos + 1 /\ pos' # 0 /\ dirty' = 2
        /\ cmds # <<>> /\ (cmds[1].op = "R" /\ pos = 1 => cmds' = <<>>)
        /\ UNCHANGED <<state, tx, inbuf, rd, step>>
    BY <1>5, LoseFacts DEF cliVars
  <2>2. CASE HitRead
    <3>1. cmds[1].op = "R" /\ pos = 1
      BY <2>1, <2>2 DEF HitRead
    <3>2. QED
      BY <2>1, <2>2, <3>1 DEF HitRead, NothingBack
  <2>3. CASE HitWrite
    BY <2>1, <2>3 DEF HitWrite
  <2>4. QED
    BY <2>2, <2>3
<1>6. CASE (S_R_SEND \/ TxDone) /\ UNCHANGED cliVars
  <2>1. HitWrite
    BY <1>6 DEF S_R_SEND, TxDone, HitRead, NothingBack
  <2>2. UNCHANGED <<cmds, pos, rd, dirty, step>>
    BY <1>6 DEF S_R_SEND, TxDone, lineVars, hostVars, cliVars
  <2>3. QED
    BY <2>1, <2>2 DEF HitWrite
<1>7. CASE (ClearStrobe /\ UNCHANGED cliVars) \/ UNCHANGED armVars
  <2>1. UNCHANGED <<cmds, pos, state, tx, inbuf, rd, dirty, step>>
    BY <1>7 DEF ClearStrobe, cliVars, armVars, vars, lineVars, fsmVars, hostVars
  <2>2. QED
    BY <2>1 DEF HitRead, HitWrite, NothingBack
<1>8. ASSUME NEW c \in Commands, Start(c) PROVE FALSE
  BY <1>0, <1>8 DEF Start
<1>9. ~NoResponse /\ ~Exit /\ ~Interrupt
  BY <1>0 DEF NoResponse, Exit, Interrupt, Clears
<1>10. QED
  BY <1>0, <1>2, <1>3, <1>4, <1>5, <1>6, <1>7, <1>8, <1>9 DEF ArmNext

\* A program that runs after a step was just started, or ran before it.
LEMMA Running ==
  ASSUME [ArmNext]_armVars, cmd' # <<>>
  PROVE  \/ \E c \in Commands : Start(c)
         \/ cmd' = cmd /\ (skew' = skew \/ skew' = TRUE) /\ last' = last /\ over' = over
  BY DEF ArmNext, reg_write, reg_read, Recv, NoResponse, Exit, Interrupt, cliVars, armVars

LEMMA ClrStep ==
  ASSUME PortInv, CliTypes, OneCmd, StepInv, NobodyElse, ClrInv, [ArmNext]_armVars
  PROVE  ClrInv'
<1> SUFFICES ASSUME Clears'
             PROVE  IF dirty' = 0 THEN (ClrBegins \/ ClrReads \/ ClrHas \/ ClrWrites)'
                    ELSE (HitRead \/ HitWrite)'
  BY DEF ClrInv
<1>1. ASSUME NEW c \in Commands, Start(c)
      PROVE  dirty' = 0 /\ ClrBegins'
  <2>1. /\ cmd = <<>> /\ cmds = <<>> /\ state # "S_R_SEND" /\ tx = <<>>
        /\ step' = 0 /\ got' = <<>> /\ skew' = (dirty # 0)
        /\ UNCHANGED <<cmds, state, tx, rd, dirty>>
    BY <1>1 DEF Start, lineVars, fsmVars, hostVars
  <2>2. dirty = 0
    BY <2>1 DEF Clears
  <2>3. rd = <<>>
    BY <2>1 DEF NobodyElse
  <2>4. QED
    BY <2>1, <2>2, <2>3 DEF ClrBegins
<1>2. CASE cmd' = cmd /\ (skew' = skew \/ skew' = TRUE)
  <2>1. Clears
    BY <1>2 DEF Clears
  <2>2. CASE dirty = 0
    BY <1>2, <2>1, <2>2, ClrCleanStep DEF ClrInv
  <2>3. CASE dirty # 0
    BY <1>2, <2>1, <2>3, ClrHitStep DEF ClrInv
  <2>4. QED
    BY <2>2, <2>3
<1>3. QED
  BY <1>1, <1>2, Running DEF Clears

\* What the enable bit may do while clr runs, one step.
LEMMA ClrEnable ==
  ASSUME PortInv, CliTypes, OneCmd, StepInv, ClrInv, [ArmNext]_armVars,
         cmd # <<>>, cmd[1] = "clr", ~skew', dirty' = 0
  PROVE  regs'[0] % 2 = regs[0] % 2
<1>1. CASE regs' = regs
  BY <1>1
<1>2. CASE regs' # regs
  <2>1. [Next]_vars
    <3>1. ~(\E c \in Commands : Start(c)) /\ ~Interrupt
      BY <1>2, Untouched DEF Elsewhere, fsmVars
    <3>2. ~reg_read
      BY <1>2 DEF reg_read, fsmVars
    <3>3. QED
      BY <3>1, <3>2, ArmSteps DEF PortInv
  <2>2. ~skew /\ cmd' = cmd
    BY <1>2 DEF ArmNext, Start, reg_write, HostWrite, reg_read, Recv, HostRecv, NoResponse, HostTimeout,
                Exit, Interrupt, cliVars, fsmVars, vars, armVars
  <2>3. Clears /\ Clears'
    BY <2>2 DEF Clears
  <2>4. dirty = 0
    BY <2>2, <2>3, ClrHitStep DEF ClrInv
  <2>5. /\ Head(cmds).op = "W" /\ cmds # <<>>
        /\ regs' = [regs EXCEPT ![Head(cmds).addr] = Head(cmds).data]
    BY <1>2, <2>1, <2>4, WriteStep DEF PortInv
  <2>6. ClrWrites
    BY <2>3, <2>4, <2>5 DEF ClrInv, ClrBegins, ClrReads, Asked, Taken, Answered, There, ClrHas
  <2>7. PICK d \in Payload : cmds = <<[op |-> "W", addr |-> 0, data |-> d]>> /\ d % 2 = regs[0] % 2
    BY <2>5, <2>6 DEF ClrWrites
  <2>8. Head(cmds).addr = 0 /\ Head(cmds).data = d
    BY <2>7
  <2>9. regs'[0] = d
    <3>1. 0 \in Reg
      BY ConstantsOK, ArmOK DEF ConstantsOK, ArmOK, Reg
    <3>2. QED
      BY <2>5, <2>8, <3>1 DEF PortInv, TypeOK
  <2>10. QED
    BY <2>7, <2>9
<1>3. QED
  BY <1>1, <1>2

-----------------------------------------------------------------------------
(* The target of the last arming command.                                  *)

\* The register file once the command on the line has been carried out.
Filed == IF cmds # <<>> /\ Head(cmds).op = "W" /\ Head(cmds).addr < NREGS
         THEN [regs EXCEPT ![Head(cmds).addr] = Head(cmds).data] ELSE regs

\* The parameters of an arming command are in a register file.
Target(c, f) == c # <<>> /\ \A i \in 1 .. 4 : f[Plan(c)[i][1]] = Plan(c)[i][2]

\* What its first n accesses write is there.
Written(c, n, f) == \A i \in 1 .. 5 : i <= n => f[Plan(c)[i][1]] = Plan(c)[i][2]

\* An arming command at work: what it has written is in the file or on its way, and the
\* injector stays off until the last write.
Arming ==
  /\ last = cmd /\ step \in 0 .. 5 /\ rd = <<>>
  /\ Written(cmd, step, Filed)
  /\ step < 5 /\ ~over => regs[0] % 2 = 0 /\ Filed[0] % 2 = 0

Aimed(f) == ~over /\ f[0] % 2 = 1 => Target(last, f)

ArmedInv ==
  noise = 0 => /\ ~skew /\ ClrInv
               /\ Aimed(regs) /\ Aimed(Filed)
               /\ cmd # <<>> /\ Arms(cmd) => Arming

\* A clean step leaves the file-to-be alone, but for reg_write; the file itself is as it
\* was or as it was to be.
LEMMA FiledStep ==
  ASSUME PortInv, CliTypes, OneCmd, StepInv, noise = 0, noise' = 0, [ArmNext]_armVars, ~reg_write
  PROVE  Filed' = Filed /\ regs' \in {regs, Filed}
<1>0. dirty = 0
  BY DEF StepInv
<1>1. CASE UNCHANGED <<cmds, regs>>
  BY <1>1 DEF Filed
<1>2. CASE reg_read
  <2>1. PICK a \in Addrs : cmds = <<>> /\ cmds' = <<[op |-> "R", addr |-> a]>>
    BY <1>2, ReadSends DEF PortInv
  <2>2. Head(cmds').op = "R" /\ regs' = regs
    BY <1>2, <2>1 DEF reg_read, fsmVars
  <2>3. QED
    BY <2>1, <2>2 DEF Filed
<1>3. CASE Deliver
  <2>1. PICK c \in Cmd : cmds = <<c>>
    BY <1>3 DEF OneCmd, Deliver, Advance
  <2>2. Head(cmds) = c /\ cmds[1] = c /\ cmds # <<>>
    BY <2>1
  <2>3. \/ cmds' = cmds /\ regs' = regs
        \/ /\ cmds' = <<>> /\ c.op = "W"
           /\ regs' = IF c.addr < NREGS THEN [regs EXCEPT ![c.addr] = c.data] ELSE regs
        \/ cmds' = <<>> /\ c.op = "R" /\ regs' = regs
    BY <1>0, <1>3, <2>2, DeliverClean
  <2>4. QED
    BY <2>2, <2>3 DEF Filed
<1>4. ~LoseByte /\ \A b \in NoiseBytes : ~SpuriousByte(b)
  BY DEF LoseByte, SpuriousByte, Disturbed
<1>5. QED
  BY <1>1, <1>2, <1>3, <1>4
     DEF ArmNext, Start, Recv, HostRecv, NoResponse, HostTimeout, Exit, Interrupt, S_R_SEND,
         ClearStrobe, TxDone, lineVars, fsmVars, vars, armVars

\* The write of an arming command.
LEMMA ArmWrites ==
  ASSUME PortInv, CliTypes, noise = 0, ArmedInv, reg_write, Arms(cmd)
  PROVE  Arming' /\ (Aimed(Filed))'
<1>1. /\ cmd # <<>> /\ cmds = <<>> /\ rd = <<>> /\ step < Len(Script(cmd)) /\ step' = step + 1
      /\ UNCHANGED <<cmd, last, over, rd, regs>>
  BY DEF reg_write, Idle, HostWrite, fsmVars
<1>2. /\ cmd \in Commands /\ last = cmd /\ step \in Nat /\ Written(cmd, step, regs)
      /\ step < 5 /\ ~over => regs[0] % 2 = 0
  BY <1>1 DEF ArmedInv, Arming, CliTypes, Filed
<1>3. PICK c \in Commands : c = cmd
  BY <1>2
<1>4. PICK n \in 1 .. 5 : n = step + 1
  <2>1. Script(cmd) = Plan(cmd) /\ Len(Plan(cmd)) = 5
    BY <1>2, ArmScript, PlanFacts
  <2>2. QED
    BY <1>1, <1>2, <2>1
<1>5. PICK a \in 0 .. 4, d \in Payload : a = Plan(c)[n][1] /\ d = Plan(c)[n][2]
  BY <1>3, <1>4, PlanFacts
<1>6. regs \in [Reg -> Byte] /\ a \in Reg /\ 0 \in Reg /\ a < NREGS
  BY ConstantsOK, ArmOK DEF PortInv, TypeOK, ConstantsOK, ArmOK, Reg
<1>7. cmds' = <<[op |-> "W", addr |-> a, data |-> d]>>
  <2>1. Script(cmd) = Plan(c)
    BY <1>2, <1>3, ArmScript
  <2>2. cmds' = Append(cmds, [op |-> "W", addr |-> a, data |-> d])
    BY <1>3, <1>4, <1>5, <2>1 DEF reg_write, HostWrite
  <2>3. QED
    BY <1>1, <2>2
<1>8. Filed' = [regs EXCEPT ![a] = d]
  <2>1. cmds' # <<>> /\ Head(cmds').op = "W" /\ Head(cmds').addr = a /\ Head(cmds').data = d
    BY <1>7
  <2>2. QED
    BY <1>1, <1>6, <2>1 DEF Filed
<1>9. PICK f : f = Filed'
  OBVIOUS
<1>10. f[a] = d /\ (a # 0 => f[0] = regs[0]) /\ \A r \in 0 .. 4 : r # a => f[r] = regs[r]
  <2>1. \A r \in 0 .. 4 : r \in Reg
    BY ConstantsOK, ArmOK DEF ConstantsOK, ArmOK, Reg
  <2>2. QED
    BY <1>6, <1>8, <1>9, <2>1
<1>11. Written(c, n, f)
  <2> SUFFICES ASSUME NEW i \in 1 .. 5, i <= n PROVE f[Plan(c)[i][1]] = Plan(c)[i][2]
    BY DEF Written
  <2>1. CASE i = n
    BY <1>5, <1>10, <2>1
  <2>2. CASE i # n
    <3>1. i <= step
      BY <1>2, <1>4, <2>2
    <3>2. regs[Plan(c)[i][1]] = Plan(c)[i][2]
      BY <1>2, <1>3, <3>1 DEF Written
    <3>3. Plan(c)[i][1] \in 0 .. 4 /\ Plan(c)[i][1] # a
      BY <1>3, <1>5, <2>2, PlanFacts
    <3>4. QED
      BY <1>10, <3>2, <3>3
  <2>3. QED
    BY <2>1, <2>2
<1>12. n < 5 /\ ~over => regs[0] % 2 = 0 /\ f[0] % 2 = 0
  <2>1. n < 5 => a # 0
    BY <1>3, <1>5, PlanFacts
  <2>2. QED
    BY <1>2, <1>4, <1>10, <2>1
<1>13. Arming'
  BY <1>1, <1>2, <1>3, <1>4, <1>9, <1>11, <1>12 DEF Arming
<1>14. ASSUME ~over, f[0] % 2 = 1 PROVE Target(c, f)
  <2>1. n = 5
    BY <1>12, <1>14
  <2>2. c # <<>>
    BY <1>1, <1>3
  <2>3. QED
    BY <1>11, <2>1, <2>2 DEF Written, Target
<1>15. QED
  BY <1>1, <1>2, <1>3, <1>9, <1>13, <1>14 DEF Aimed

\* The write of disarm or of clr leaves the parameters alone and does not enable.
LEMMA OtherWrites ==
  ASSUME PortInv, CliTypes, OneCmd, StepInv, NobodyElse, ArmedInv, noise = 0, noise' = 0,
         [ArmNext]_armVars, reg_write, ~Arms(cmd)
  PROVE  (Aimed(Filed))'
<1>1. /\ cmd # <<>> /\ cmds = <<>> /\ rd = <<>> /\ step < Len(Script(cmd)) /\ step' = step + 1
      /\ UNCHANGED <<cmd, last, over, skew, regs, dirty>>
      /\ cmd \in Commands /\ step \in Nat /\ got \in Seq(Byte) /\ dirty = 0 /\ ~skew
      /\ Len(Script(cmd)[step + 1]) = 2
  BY DEF reg_write, Idle, HostWrite, fsmVars, CliTypes, StepInv, ArmedInv
<1>2. regs \in [Reg -> Byte] /\ 0 \in Reg /\ 0 < NREGS /\ \A r \in 0 .. 4 : r \in Reg
  BY ConstantsOK, ArmOK DEF PortInv, TypeOK, ConstantsOK, ArmOK, Reg
<1>3. ASSUME NEW d \in Payload, cmds' = <<[op |-> "W", addr |-> 0, data |-> d]>>,
             d % 2 = 1 => regs[0] % 2 = 1
      PROVE  (Aimed(Filed))'
  <2>1. cmds' # <<>> /\ Head(cmds').op = "W" /\ Head(cmds').addr = 0 /\ Head(cmds').data = d
    BY <1>3
  <2>2. Filed' = [regs EXCEPT ![0] = d]
    BY <1>1, <1>2, <2>1 DEF Filed
  <2>3. PICK f : f = Filed'
    OBVIOUS
  <2>4. f[0] = d /\ \A r \in 0 .. 4 : r # 0 => f[r] = regs[r]
    BY <1>2, <2>2, <2>3
  <2>5. ASSUME ~over, f[0] % 2 = 1 PROVE Target(last, f)
    <3>1. Target(last, regs)
      BY <1>3, <2>4, <2>5 DEF ArmedInv, Aimed
    <3>2. last # <<>> /\ last \in Commands /\ Arms(last)
      BY <3>1 DEF Target, CliTypes
    <3>3. ASSUME NEW i \in 1 .. 4 PROVE f[Plan(last)[i][1]] = Plan(last)[i][2]
      <4>1. Plan(last)[i][1] \in 0 .. 4 /\ Plan(last)[i][1] # 0
        BY <3>2, PlanFacts
      <4>2. QED
        BY <2>4, <3>1, <4>1 DEF Target
    <3>4. QED
      BY <3>2, <3>3 DEF Target
  <2>6. QED
    BY <1>1, <2>3, <2>5 DEF Aimed
<1>4. CASE cmd[1] = "disarm"
  <2>1. Script(cmd) = << <<0, 0>> >>
    BY <1>1, <1>4, OtherScripts
  <2>2. step = 0
    BY <1>1, <2>1
  <2>3. Script(cmd)[step + 1][1] = 0 /\ Script(cmd)[step + 1][2] = 0
    BY <2>1, <2>2
  <2>4. cmds' = Append(cmds, [op |-> "W", addr |-> 0, data |-> 0])
    BY <2>3 DEF reg_write, HostWrite
  <2>5. cmds' = <<[op |-> "W", addr |-> 0, data |-> 0]>> /\ 0 \in Payload /\ 0 % 2 # 1
    BY <1>1, <2>4, ArmOK DEF ArmOK
  <2>6. QED
    BY <1>3, <2>5
<1>5. CASE cmd[1] = "clr"
  <2>1. Clears'
    BY <1>1, <1>5 DEF Clears
  <2>2. (ClrBegins \/ ClrReads \/ ClrHas \/ ClrWrites)'
    BY <1>1, <2>1, ClrStep DEF ArmedInv, ClrInv
  <2>3. PICK c : cmds' = Append(cmds, c) /\ c.op = "W"
    <3>1. PICK a, d : cmds' = Append(cmds, [op |-> "W", addr |-> a, data |-> d])
      BY DEF reg_write, HostWrite
    <3>2. QED
      BY <3>1
  <2>4. cmds' # <<>> /\ cmds'[1].op = "W"
    BY <1>1, <2>3
  <2>5. ClrWrites'
    BY <2>2, <2>4 DEF ClrBegins, ClrReads, Asked, Taken, Answered, There, ClrHas
  <2>6. PICK d \in Payload : cmds' = <<[op |-> "W", addr |-> 0, data |-> d]>> /\ d % 2 = regs'[0] % 2
    BY <2>4, <2>5 DEF ClrWrites
  <2>7. QED
    BY <1>1, <1>3, <2>6
<1>6. CASE cmd[1] = "status"
  <2>1. Script(cmd) = << <<128>>, <<129>>, <<130>> >>
    BY <1>1, <1>6, OtherScripts
  <2>2. step = 0 \/ step = 1 \/ step = 2
    BY <1>1, <2>1
  <2>3. \E x \in {128, 129, 130} : Script(cmd)[step + 1] = <<x>>
    BY <2>1, <2>2
  <2>4. QED
    BY <1>1, <2>3
<1>7. QED
  BY <1>1, <1>4, <1>5, <1>6, CommandShape DEF Arms

LEMMA ArmedStep ==
  ASSUME PortInv, CliTypes, OneCmd, StepInv, NobodyElse, ArmedInv, noise = 0, noise' = 0,
         [ArmNext]_armVars
  PROVE  ArmedInv'
<1>0. /\ dirty = 0 /\ ~skew /\ ClrInv /\ Aimed(regs) /\ Aimed(Filed)
      /\ cmd # <<>> /\ Arms(cmd) => Arming
      /\ cmd \in {<<>>} \cup Commands /\ step \in Nat
  BY DEF ArmedInv, StepInv, CliTypes
<1>1. ClrInv'
  BY <1>0, ClrStep
<1>2. ~skew'
  <2>1. \A b \in NoiseBytes : ~SpuriousByte(b)
    BY DEF SpuriousByte, Disturbed
  <2>2. QED
    BY <1>0, <2>1 DEF ArmNext, Start, reg_write, reg_read, Recv, NoResponse, Exit, Interrupt, cliVars, armVars
\* What does not concern the last arming command.
<1>same. ASSUME ~reg_write, UNCHANGED <<last, over>>,
                cmd' = <<>> \/ ~Arms(cmd') \/ UNCHANGED <<cmd, step, rd>>
         PROVE  ArmedInv'
  <2>1. Filed' = Filed /\ regs' \in {regs, Filed}
    BY <1>same, FiledStep
  <2>2. (Aimed(regs))' /\ (Aimed(Filed))'
    BY <1>0, <1>same, <2>1 DEF Aimed
  <2>3. ASSUME cmd' # <<>>, Arms(cmd') PROVE Arming'
    <3>1. UNCHANGED <<cmd, step, rd>> /\ Arming
      BY <1>0, <1>same, <2>3
    <3>2. step < 5 /\ ~over => regs'[0] % 2 = 0 /\ Filed'[0] % 2 = 0
      BY <2>1, <3>1 DEF Arming
    <3>3. QED
      BY <1>same, <2>1, <3>1, <3>2 DEF Arming
  <2>4. QED
    BY <1>1, <1>2, <2>2, <2>3 DEF ArmedInv, Arms
<1>3. ASSUME NEW c \in Commands, Start(c) PROVE ArmedInv'
  <2>1. /\ cmds = <<>> /\ cmd = <<>> /\ cmd' = c /\ step' = 0
        /\ last' = (IF Arms(c) THEN c ELSE last)
        /\ over' = (over \/ (Arms(c) /\ regs[0] % 2 = 1))
        /\ UNCHANGED <<cmds, regs, rd>>
    BY <1>3 DEF Start, lineVars, fsmVars, hostVars, Enabled
  <2>2. CASE ~Arms(c)
    <3>1. UNCHANGED last /\ (over' <=> over)
      BY <2>1, <2>2
    <3>2. over' = over
      <4>1. over \in BOOLEAN /\ over' \in BOOLEAN
        BY CliStep DEF CliTypes, PortInv
      <4>2. QED
        BY <3>1, <4>1
    <3>3. ~reg_write
      BY <2>1 DEF reg_write, Idle
    <3>4. QED
      BY <1>same, <2>1, <2>2, <3>1, <3>2, <3>3
  <2>3. CASE Arms(c)
    <3>1. Filed = regs /\ Filed' = regs
      BY <2>1 DEF Filed
    <3>2. regs[0] % 2 \in {0, 1}
      <4>1. regs[0] \in Byte
        BY ConstantsOK, ArmOK DEF PortInv, TypeOK, ConstantsOK, ArmOK, Reg
      <4>2. QED
        BY <4>1, ByteNat
    <3>3. ~over' => regs[0] % 2 = 0
      BY <2>1, <2>3, <3>2
    <3>4. (Aimed(regs))' /\ (Aimed(Filed))'
      BY <2>1, <3>1, <3>3 DEF Aimed
    <3>5. rd' = <<>> /\ last' = cmd'
      BY <2>1, <2>3 DEF NobodyElse
    <3>6. Written(cmd', 0, Filed')
      BY DEF Written
    <3>7. Arming'
      BY <2>1, <3>1, <3>3, <3>5, <3>6 DEF Arming
    <3>8. QED
      BY <1>1, <1>2, <3>4, <3>7 DEF ArmedInv
  <2>4. QED
    BY <2>2, <2>3
<1>4. CASE reg_write
  <2>1. UNCHANGED <<last, over, regs, cmd>>
    BY <1>4 DEF reg_write, HostWrite, fsmVars
  <2>2. (Aimed(regs))'
    BY <1>0, <2>1 DEF Aimed
  <2>3. cmd # <<>>
    BY <1>4 DEF reg_write, Idle
  <2>4. CASE Arms(cmd)
    BY <1>1, <1>2, <1>4, <2>2, <2>4, ArmWrites DEF ArmedInv
  <2>5. CASE ~Arms(cmd)
    BY <1>1, <1>2, <1>4, <2>1, <2>2, <2>5, OtherWrites DEF ArmedInv, Arms
  <2>6. QED
    BY <2>4, <2>5
<1>5. CASE reg_read
  <2>1. ~Arms(cmd)
    <3>1. SUFFICES ASSUME Arms(cmd) PROVE FALSE
      OBVIOUS
    <3>2. cmd # <<>> /\ step < Len(Script(cmd)) /\ Len(Script(cmd)[step + 1]) = 1 /\ cmd \in Commands
      BY <1>0, <1>5 DEF reg_read, Idle
    <3>3. Script(cmd) = Plan(cmd) /\ Len(Plan(cmd)) = 5
      BY <3>1, <3>2, ArmScript, PlanFacts
    <3>4. step + 1 \in 1 .. 5
      BY <1>0, <3>2, <3>3
    <3>5. QED
      BY <3>1, <3>2, <3>3, <3>4, PlanFacts
  <2>2. ~reg_write /\ UNCHANGED <<cmd, last, over>>
    BY <1>5 DEF reg_read, reg_write, cliVars
  <2>3. QED
    BY <1>same, <2>1, <2>2 DEF Arms
<1>6. CASE Recv
  <2>1. UNCHANGED <<cmd, last, over>> /\ rd # <<>> /\ ~reg_write
    BY <1>6 DEF Recv, HostRecv, reg_write, Idle
  <2>2. cmd # <<>> => ~Arms(cmd)
    BY <1>0, <2>1 DEF Arming
  <2>3. QED
    BY <1>same, <2>1, <2>2 DEF Arms
<1>7. CASE Exit
  <2>1. /\ cmd # <<>> /\ cmds = <<>> /\ step = Len(Script(cmd)) /\ cmd' = <<>>
        /\ over' = (over /\ ~Arms(cmd)) /\ UNCHANGED <<last, regs, cmds>>
    BY <1>7 DEF Exit, Idle, vars, fsmVars, lineVars
  <2>2. Filed = regs /\ Filed' = regs
    BY <2>1 DEF Filed
  <2>3. CASE Arms(cmd)
    <3>1. Script(cmd) = Plan(cmd) /\ Len(Plan(cmd)) = 5 /\ cmd \in Commands
      BY <1>0, <2>1, <2>3, ArmScript, PlanFacts
    <3>2. Written(cmd, 5, regs) /\ last = cmd
      BY <1>0, <2>1, <2>2, <2>3, <3>1 DEF Arming
    <3>3. Target(last, regs)
      BY <2>1, <3>2 DEF Written, Target
    <3>4. QED
      BY <1>1, <1>2, <2>1, <2>2, <3>3 DEF ArmedInv, Aimed
  <2>4. CASE ~Arms(cmd)
    BY <1>0, <1>1, <1>2, <2>1, <2>2, <2>4 DEF ArmedInv, Aimed
  <2>5. QED
    BY <2>3, <2>4
<1>8. CASE NoResponse \/ Interrupt
  BY <1>8, <1>same DEF NoResponse, HostTimeout, Interrupt, reg_write, lineVars, HostWrite, Idle
<1>9. CASE UNCHANGED <<cmd, step, last, over, rd>>
  <2>1. ~reg_write
    BY <1>0, <1>9 DEF reg_write
  <2>2. QED
    BY <1>9, <1>same, <2>1
<1>10. \A b \in NoiseBytes : ~SpuriousByte(b)
  BY DEF SpuriousByte, Disturbed
<1>11. QED
  BY <1>3, <1>4, <1>5, <1>6, <1>7, <1>8, <1>9, <1>10
     DEF ArmNext, Deliver, LoseByte, Rx, S_R_SEND, ClearStrobe, TxDone, hostVars, cliVars, vars, armVars

-----------------------------------------------------------------------------
(* The theorems under arm.py.                                              *)

CliInv == PortInv /\ CliTypes /\ OneCmd /\ NobodyElse

LEMMA CliInvariant == ArmSpec => []CliInv
<1>1. ArmInit => CliInv
  <2> SUFFICES ASSUME ArmInit PROVE CliInv
    OBVIOUS
  <2>1. TypeOK /\ PosOK
    BY TypeInit DEF ArmInit
  <2>2. TxInv /\ OneCmd /\ NobodyElse
    BY DEF ArmInit, Init, TxInv, OneCmd, NobodyElse
  <2>3. CliTypes
    <3>1. over \in BOOLEAN /\ skew \in BOOLEAN
      BY Zenon DEF ArmInit
    <3>2. QED
      BY <3>1 DEF ArmInit, CliTypes
  <2>4. QED
    BY <2>1, <2>2, <2>3 DEF CliInv, PortInv
<1>2. CliInv /\ [ArmNext]_armVars => CliInv'
  BY PortStep, CliStep, OneCmdStep, NobodyElseStep DEF CliInv, PortInv
<1>3. QED
  BY <1>1, <1>2, PTL DEF ArmSpec

\* Under arm.py, stopped anywhere, the port keeps its types.
THEOREM ArmTypeCorrect == ArmSpec => [](TypeOK /\ CliTypes)
<1>1. CliInv => TypeOK /\ CliTypes
  BY DEF CliInv, PortInv
<1>2. QED
  BY <1>1, CliInvariant, PTL

\* No answer of arm.py's reads waits for the transmitter, on any line.
THEOREM ArmAnswerTheorem == ArmSpec => []AnswerNeverWaits
<1>1. CliInv => AnswerNeverWaits
  BY DEF CliInv, PortInv, TxInv, AnswerNeverWaits
<1>2. QED
  BY <1>1, CliInvariant, PTL

LEMMA ArmStepInvariant ==
  ASSUME NoCodes \/ MaxNoise = 0
  PROVE  ArmSpec => []StepInv
<1>1. ArmInit => StepInv
  BY StepInit DEF ArmInit
<1>2. CliInv /\ StepInv /\ [ArmNext]_armVars => StepInv'
  <2>1. TypeOK => NoCodes \/ noise = 0
    BY DEF TypeOK
  <2>2. QED
    BY <2>1, ArmStepKept DEF CliInv, PortInv
<1>3. QED
  BY <1>1, <1>2, CliInvariant, PTL DEF ArmSpec

\* Wherever a program is stopped, the FSM is in step again one command after a line fault.
THEOREM ArmInStepTheorem ==
  ASSUME NoCodes \/ MaxNoise = 0
  PROVE  ArmSpec => []InStep
<1>1. StepInv => InStep
  BY DEF StepInv
<1>2. QED
  BY <1>1, ArmStepInvariant, PTL

\* In step, a register changes only by the write that names it, whatever program sent it.
THEOREM ArmCleanWritesTheorem ==
  ASSUME NoCodes \/ MaxNoise = 0
  PROVE  ArmSpec => CleanWritesLand
<1> DEFINE Land == dirty = 0 /\ dirty' = 0 /\ regs' # regs =>
                     /\ Head(cmds).op = "W" /\ cmds' = Tail(cmds)
                     /\ regs' = [regs EXCEPT ![Head(cmds).addr] = Head(cmds).data]
<1>1. CliInv /\ StepInv /\ [ArmNext]_armVars => [Land]_vars
  <2> SUFFICES ASSUME CliInv, StepInv, [ArmNext]_armVars, dirty = 0, dirty' = 0, regs' # regs
               PROVE  /\ Head(cmds).op = "W" /\ cmds' = Tail(cmds)
                      /\ regs' = [regs EXCEPT ![Head(cmds).addr] = Head(cmds).data]
    OBVIOUS
  <2>1. ~(\E c \in Commands : Start(c)) /\ ~Interrupt /\ ~reg_read
    BY Untouched DEF Elsewhere, fsmVars, reg_read
  <2>2. [Next]_vars
    BY <2>1, ArmSteps DEF CliInv, PortInv
  <2>3. QED
    BY <2>2, WriteStep DEF CliInv, PortInv
<1>2. QED
  BY <1>1, CliInvariant, ArmStepInvariant, PTL DEF ArmSpec, CleanWritesLand

\* clr keeps the enable bit from its read to its write, wherever programs were stopped
\* before it and whatever the line does to it.
THEOREM ClrTheorem ==
  ASSUME NoCodes \/ MaxNoise = 0
  PROVE  ArmSpec => ClrKeepsEnable
<1> DEFINE Keep == cmd # <<>> /\ cmd[1] = "clr" /\ ~skew' /\ dirty' = 0
                   => regs'[0] % 2 = regs[0] % 2
<1>1. ArmInit => ClrInv
  BY DEF ArmInit, ClrInv, Clears
<1>2. CliInv /\ StepInv /\ ClrInv /\ [ArmNext]_armVars => ClrInv'
  BY ClrStep DEF CliInv
<1>3. CliInv /\ StepInv /\ ClrInv /\ [ArmNext]_armVars => [Keep]_armVars
  BY ClrEnable DEF CliInv
<1>4. QED
  BY <1>1, <1>2, <1>3, CliInvariant, ArmStepInvariant, PTL DEF ArmSpec, ClrKeepsEnable

\* Up to the first line fault an enabled injector has the whole target of the last arming
\* command, whatever order programs are run in and wherever they are stopped, except after
\* one that was begun on an enabled injector and stopped.  No data byte is excluded.
THEOREM ArmedWholeTheorem == ArmSpec => []ArmedWholeByHand
<1>1. ArmInit => Undisturbed /\ ArmedInv
  <2> SUFFICES ASSUME ArmInit PROVE Undisturbed /\ ArmedInv
    OBVIOUS
  <2>1. 0 \in Reg
    BY ConstantsOK, ArmOK DEF ConstantsOK, ArmOK, Reg
  <2>2. cmd = <<>> /\ cmds = <<>> /\ regs[0] = 0 /\ ~skew
    BY <2>1 DEF ArmInit, Init
  <2>3. Aimed(regs) /\ Aimed(Filed)
    BY <2>2 DEF Aimed, Filed
  <2>4. QED
    BY <2>2, <2>3, StepInit DEF ArmInit, ArmedInv, ClrInv, Clears, Undisturbed
<1>2. CliInv /\ Undisturbed /\ ArmedInv /\ [ArmNext]_armVars => (Undisturbed /\ ArmedInv)'
  <2> SUFFICES ASSUME CliInv, Undisturbed, ArmedInv, [ArmNext]_armVars, noise' = 0
               PROVE  StepInv' /\ ArmedInv'
    BY DEF Undisturbed, ArmedInv
  <2>1. noise = 0 /\ StepInv
    BY ArmNoise DEF CliInv, Undisturbed
  <2>2. QED
    BY <2>1, ArmStepKept, ArmedStep DEF CliInv
<1>3. CliInv /\ ArmedInv => ArmedWholeByHand
  <2> SUFFICES ASSUME CliInv, ArmedInv, noise = 0, ~over, Enabled PROVE Holds(last)
    BY DEF ArmedWholeByHand
  <2>1. Target(last, regs)
    BY DEF ArmedInv, Aimed, Enabled
  <2>2. last \in Commands /\ Arms(last)
    BY <2>1 DEF Target, CliInv, CliTypes
  <2>3. Script(last) = Plan(last) /\ DOMAIN Plan(last) = 1 .. 5 /\ Plan(last)[5] = <<0, 1>>
    BY <2>2, ArmScript, PlanFacts
  <2>4. ASSUME NEW i \in 1 .. 5, Plan(last)[i][1] # 0 PROVE regs[Plan(last)[i][1]] = Plan(last)[i][2]
    <3>1. i # 5
      BY <2>3, <2>4
    <3>2. i \in 1 .. 4
      BY <3>1
    <3>3. QED
      BY <2>1, <3>2 DEF Target
  <2>5. QED
    BY <2>3, <2>4 DEF Holds
<1>4. QED
  BY <1>1, <1>2, <1>3, CliInvariant, PTL DEF ArmSpec

-----------------------------------------------------------------------------
(* The UART and the echo: uart_rx and uart_tx.                              *)

Byte8 == [0 .. 7 -> Bit]

\* What the host is doing is in range.
HostOK ==
  /\ host.pc = "send" => host.k \in 0 .. 9 /\ host.t < line.rate
  /\ host.pc = "glitch" => host.k \in 1 .. line.glitch

LEMMA BitTime ==
  /\ CLKS_PER_BIT \in Nat /\ SUB \in Nat /\ SUB > 0 /\ HALF \in Nat /\ LAST \in Nat
  /\ CLKS_PER_BIT = LAST + 1 /\ 2 * HALF <= LAST /\ LAST <= 2 * HALF + 1
<1>1. CLKS_PER_BIT \in Nat /\ CLKS_PER_BIT > 0 /\ SUB \in Nat /\ SUB > 0
  BY UartOK DEF UartOK
<1>2. QED
  BY <1>1 DEF HALF, LAST

\* The bits of a line that is among Lines, by the sampling instants.
LEMMA LineTypes ==
  ASSUME NEW ln \in Lines
  PROVE  ln.rate \in Nat /\ ln.rate > 0 /\ ln.phases \subseteq 0 .. SUB - 1
         /\ ln.gap \in Nat /\ ln.glitch \in Nat /\ ln.resets \in Nat
<1>1. Lines \subseteq [rate : Nat \ {0}, phases : SUBSET (0 .. SUB - 1), gap : Nat,
                       glitch : Nat, resets : Nat]
  BY UartOK DEF UartOK
<1>2. QED
  BY <1>1

\* What uart_rx and the host make of the line in one bit, j, counted from the start bit.
LEMMA Sampling ==
  ASSUME NEW ln \in Lines, NEW j \in 0 .. 9
  PROVE  /\ j * ln.rate <= (HALF + 1 + j * CLKS_PER_BIT) * SUB
         /\ (HALF + 3 + j * CLKS_PER_BIT) * SUB <= (j + 1) * ln.rate
         /\ 2 * j * CLKS_PER_BIT * SUB <= (2 * j + 1) * ln.rate
         /\ (2 * j + 1) * ln.rate <= 2 * ((j + 1) * CLKS_PER_BIT - 2) * SUB
  BY TimingOK DEF TimingOK

LEMMA GlitchShort == ASSUME NEW ln \in Lines PROVE ln.glitch <= HALF + 1
  BY TimingOK DEF TimingOK

LEMMA Bits == Blank \in Byte8 /\ 0 \in Bit /\ 1 \in Bit /\ Bytes \subseteq Byte8
  BY UartOK DEF UartOK, Blank, Byte8, Bit

LEMMA ScaleMono ==
  ASSUME NEW a \in Nat, NEW b \in Nat, NEW s \in Nat, a <= b
  PROVE  a * s <= b * s
<1>1. PICK d \in Nat : b = a + d
  <2>1. b - a \in Nat /\ b = a + (b - a)
    OBVIOUS
  <2>2. QED
    BY <2>1
<1>2. b * s = a * s + d * s /\ d * s \in Nat /\ a * s \in Nat
  BY <1>1
<1>3. QED
  BY <1>2

LEMMA ScaleCancel ==
  ASSUME NEW a \in Nat, NEW b \in Nat, NEW s \in Nat, a * s < b * s
  PROVE  a < b
<1>1. SUFFICES ASSUME b <= a PROVE FALSE
  OBVIOUS
<1>2. b * s <= a * s
  BY <1>1, ScaleMono
<1>3. a * s \in Nat /\ b * s \in Nat
  OBVIOUS
<1>4. QED
  BY <1>2, <1>3

\* A bit of the host is longer than three clocks, and a bit of uart_rx four.
LEMMA BitsLong ==
  ASSUME NEW ln \in Lines
  PROVE  3 * SUB <= ln.rate /\ 4 <= CLKS_PER_BIT /\ HALF + 2 < CLKS_PER_BIT
<1> USE BitTime, LineTypes
<1>1. (HALF + 3) * SUB <= ln.rate
  <2>1. (HALF + 3 + 0 * CLKS_PER_BIT) * SUB <= (0 + 1) * ln.rate
    BY Sampling
  <2>2. HALF + 3 + 0 * CLKS_PER_BIT = HALF + 3 /\ (0 + 1) * ln.rate = ln.rate
    OBVIOUS
  <2>3. QED
    BY <2>1, <2>2
<1>2. 3 * SUB <= (HALF + 3) * SUB
  BY ScaleMono
<1>3. 9 * ln.rate <= (HALF + 1 + 9 * CLKS_PER_BIT) * SUB
  BY Sampling
<1>4. 9 * (HALF + 3) * SUB <= (HALF + 1 + 9 * CLKS_PER_BIT) * SUB
  <2>1. 9 * ((HALF + 3) * SUB) <= 9 * ln.rate
    BY <1>1
  <2>2. 9 * ((HALF + 3) * SUB) = 9 * (HALF + 3) * SUB
    OBVIOUS
  <2>3. QED
    BY <1>3, <2>1, <2>2
<1>5. 9 * (HALF + 3) <= HALF + 1 + 9 * CLKS_PER_BIT
  <2>1. 9 * (HALF + 3) \in Nat /\ HALF + 1 + 9 * CLKS_PER_BIT \in Nat
    OBVIOUS
  <2>2. SUFFICES ASSUME HALF + 1 + 9 * CLKS_PER_BIT + 1 <= 9 * (HALF + 3) PROVE FALSE
    BY <2>1
  <2>3. (HALF + 1 + 9 * CLKS_PER_BIT + 1) * SUB <= 9 * (HALF + 3) * SUB
    BY <2>1, <2>2, ScaleMono
  <2>4. (HALF + 1 + 9 * CLKS_PER_BIT + 1) * SUB = (HALF + 1 + 9 * CLKS_PER_BIT) * SUB + SUB
    OBVIOUS
  <2>5. (HALF + 1 + 9 * CLKS_PER_BIT) * SUB \in Nat
    OBVIOUS
  <2>6. QED
    BY <1>4, <2>3, <2>4, <2>5
<1>6. QED
  BY <1>1, <1>2, <1>5

\* Only one bit of the host can be on the line at an instant.
LEMMA OneBit ==
  ASSUME NEW a \in Nat, NEW b \in Nat, NEW r \in Nat, NEW x \in Nat,
         a * r <= x, x < (a + 1) * r, b * r <= x, x < (b + 1) * r
  PROVE  a = b
<1>1. a * r \in Nat /\ b * r \in Nat /\ (a + 1) * r \in Nat /\ (b + 1) * r \in Nat
  OBVIOUS
<1>2. a < b + 1
  BY <1>1, ScaleCancel
<1>3. b < a + 1
  BY <1>1, ScaleCancel
<1>4. QED
  BY <1>2, <1>3

\* The registers of the receiver, and of the transmitter, go together.
Shapes ==
  /\ u_rx.valid => u_rx.state = "IDLE" /\ ~tx_start
  /\ u_rx.state = "START" => u_rx.bit_idx = 0 /\ u_rx.clk_cnt <= HALF
  /\ u_tx.busy <=> u_tx.state # "IDLE"
  /\ u_tx.state # "DATA" => u_tx.bit_idx = 0
  /\ u_tx.state = "IDLE" => u_tx.clk_cnt = 0
  /\ tx_start => u_tx.state = "IDLE"

LEMMA WireIsBit == ASSUME EchoTypes, HostOK PROVE uart_txd_in \in Bit
<1>1. host.pc \in {"idle", "send", "glitch"} /\ host.byte \in [0 .. 7 -> Bit] /\ 0 \in Bit /\ 1 \in Bit
  BY DEF EchoTypes, Bit
<1>2. CASE host.pc = "send" /\ host.k \in 1 .. 8
  <2>1. host.byte[host.k - 1] \in Bit
    BY <1>1, <1>2
  <2>2. QED
    BY <1>1, <1>2, <2>1 DEF uart_txd_in
<1>3. CASE ~(host.pc = "send" /\ host.k \in 1 .. 8)
  <2>1. host.pc = "send" => host.k = 0 \/ host.k = 9
    BY <1>3 DEF HostOK
  <2>2. QED
    BY <1>1, <2>1 DEF uart_txd_in
<1>4. QED
  BY <1>2, <1>3

\* The host begins a frame.
LEMMA BeginsTypes ==
  ASSUME NEW t \in Nat, Begins(t)
  PROVE  /\ host'.pc = "send" /\ host'.k = 0 /\ host'.t = t /\ host'.wait = 0
         /\ host'.byte \in Bytes /\ host'.byte \in Byte8
         /\ host' = [pc |-> "send", k |-> 0, t |-> t, byte |-> host'.byte, wait |-> 0]
<1>1. PICK b \in Bytes : host' = [pc |-> "send", k |-> 0, t |-> t, byte |-> b, wait |-> 0]
  BY DEF Begins
<1>2. b \in Byte8
  BY Bits
<1>3. QED
  BY <1>1, <1>2

HostType == [pc : {"idle", "send", "glitch"}, k : Nat, t : Nat, byte : [0 .. 7 -> Bit], wait : Nat]

RxIs(s, c, i, v, d) == [state |-> s, clk_cnt |-> c, bit_idx |-> i, valid |-> v, data |-> d]
TxIs(s, c, i, d, w, b) == [state |-> s, clk_cnt |-> c, bit_idx |-> i, shreg |-> d, tx |-> w, busy |-> b]
HostIs(p, k, t, b, w) == [pc |-> p, k |-> k, t |-> t, byte |-> b, wait |-> w]

LEMMA RxMade ==
  ASSUME NEW s \in {"IDLE", "START", "DATA", "STOP", "DONE"}, NEW c \in 0 .. LAST, NEW i \in 0 .. 7,
         NEW v \in BOOLEAN, NEW d \in [0 .. 7 -> Bit]
  PROVE  RxIs(s, c, i, v, d) \in RxRegs
  BY Zenon DEF RxRegs, RxIs

LEMMA TxMade ==
  ASSUME NEW s \in {"IDLE", "START", "DATA", "STOP"}, NEW c \in 0 .. LAST, NEW i \in 0 .. 7,
         NEW d \in [0 .. 7 -> Bit], NEW w \in Bit, NEW b \in BOOLEAN
  PROVE  TxIs(s, c, i, d, w, b) \in TxRegs
  BY Zenon DEF TxRegs, TxIs

LEMMA HostMade ==
  ASSUME NEW p \in {"idle", "send", "glitch"}, NEW k \in Nat, NEW t \in Nat, NEW b \in [0 .. 7 -> Bit],
         NEW w \in Nat
  PROVE  HostIs(p, k, t, b, w) \in HostType
  BY Zenon DEF HostType, HostIs

\* What a clock does to uart_rx.
LEMMA RxStep ==
  ASSUME EchoTypes, uart_rx
  PROVE  \/ /\ u_rx.state = "IDLE" /\ rx_sync = 1
            /\ u_rx' = RxIs("IDLE", 0, 0, FALSE, u_rx.data)
         \/ /\ u_rx.state = "IDLE" /\ rx_sync = 0
            /\ u_rx' = RxIs("START", 0, 0, FALSE, u_rx.data)
         \/ /\ u_rx.state = "START" /\ u_rx.clk_cnt # HALF
            /\ u_rx' = RxIs("START", u_rx.clk_cnt + 1, u_rx.bit_idx, FALSE, u_rx.data)
         \/ /\ u_rx.state = "START" /\ u_rx.clk_cnt = HALF /\ rx_sync = 0
            /\ u_rx' = RxIs("DATA", 0, u_rx.bit_idx, FALSE, u_rx.data)
         \/ /\ u_rx.state = "START" /\ u_rx.clk_cnt = HALF /\ rx_sync = 1
            /\ u_rx' = RxIs("IDLE", u_rx.clk_cnt, u_rx.bit_idx, FALSE, u_rx.data)
         \/ /\ u_rx.state = "DATA" /\ u_rx.clk_cnt # LAST
            /\ u_rx' = RxIs("DATA", u_rx.clk_cnt + 1, u_rx.bit_idx, FALSE, u_rx.data)
         \/ /\ u_rx.state = "DATA" /\ u_rx.clk_cnt = LAST /\ u_rx.bit_idx # 7
            /\ u_rx' = RxIs("DATA", 0, u_rx.bit_idx + 1, FALSE,
                            [u_rx.data EXCEPT ![u_rx.bit_idx] = rx_sync])
         \/ /\ u_rx.state = "DATA" /\ u_rx.clk_cnt = LAST /\ u_rx.bit_idx = 7
            /\ u_rx' = RxIs("STOP", 0, 0, FALSE, [u_rx.data EXCEPT ![u_rx.bit_idx] = rx_sync])
         \/ /\ u_rx.state = "STOP" /\ u_rx.clk_cnt # LAST
            /\ u_rx' = RxIs("STOP", u_rx.clk_cnt + 1, u_rx.bit_idx, FALSE, u_rx.data)
         \/ /\ u_rx.state = "STOP" /\ u_rx.clk_cnt = LAST
            /\ u_rx' = RxIs("DONE", 0, u_rx.bit_idx, FALSE, u_rx.data)
         \/ /\ u_rx.state = "DONE"
            /\ u_rx' = RxIs("IDLE", u_rx.clk_cnt, u_rx.bit_idx, TRUE, u_rx.data)
<1>1. u_rx \in RxRegs /\ (rx_sync = 0 \/ rx_sync = 1)
  BY DEF EchoTypes, Bit
<1>2. CASE RxIdle /\ rx_sync = 0
  BY <1>1, <1>2 DEF RxIdle, RxRegs, RxIs
<1>3. CASE RxIdle /\ rx_sync = 1
  BY <1>1, <1>3 DEF RxIdle, RxRegs, RxIs
<1>4. CASE RxStart /\ u_rx.clk_cnt # HALF
  BY <1>1, <1>4 DEF RxStart, RxRegs, RxIs
<1>5. CASE RxStart /\ u_rx.clk_cnt = HALF /\ rx_sync = 0
  BY <1>1, <1>5 DEF RxStart, RxRegs, RxIs
<1>6. CASE RxStart /\ u_rx.clk_cnt = HALF /\ rx_sync = 1
  BY <1>1, <1>6 DEF RxStart, RxRegs, RxIs
<1>7. CASE RxData /\ u_rx.clk_cnt # LAST
  BY <1>1, <1>7 DEF RxData, RxRegs, RxIs
<1>8. CASE RxData /\ u_rx.clk_cnt = LAST
  <2>1. u_rx' = [u_rx EXCEPT !.valid = FALSE, !.clk_cnt = 0, !.data[u_rx.bit_idx] = rx_sync,
                             !.bit_idx = (@ + 1) % 8,
                             !.state = IF u_rx.bit_idx = 7 THEN "STOP" ELSE "DATA"]
    BY <1>8 DEF RxData
  <2>2. u_rx' = RxIs(IF u_rx.bit_idx = 7 THEN "STOP" ELSE "DATA", 0, (u_rx.bit_idx + 1) % 8, FALSE,
                     [u_rx.data EXCEPT ![u_rx.bit_idx] = rx_sync])
    BY <1>1, <2>1 DEF RxRegs, RxIs
  <2>3. CASE u_rx.bit_idx = 7
    <3>1. (u_rx.bit_idx + 1) % 8 = 0
      BY <2>3
    <3>2. QED
      BY <1>8, <2>2, <2>3, <3>1 DEF RxData
  <2>4. CASE u_rx.bit_idx # 7
    <3>1. (u_rx.bit_idx + 1) % 8 = u_rx.bit_idx + 1
      BY <1>1, <2>4 DEF RxRegs
    <3>2. QED
      BY <1>8, <2>2, <2>4, <3>1 DEF RxData
  <2>5. QED
    BY <2>3, <2>4
<1>9. CASE RxStop /\ u_rx.clk_cnt # LAST
  BY <1>1, <1>9 DEF RxStop, RxRegs, RxIs
<1>10. CASE RxStop /\ u_rx.clk_cnt = LAST
  BY <1>1, <1>10 DEF RxStop, RxRegs, RxIs
<1>11. CASE RxDone
  BY <1>1, <1>11 DEF RxDone, RxRegs, RxIs
<1>12. QED
  BY <1>1, <1>2, <1>3, <1>4, <1>5, <1>6, <1>7, <1>8, <1>9, <1>10, <1>11 DEF uart_rx, RxIdle, RxStart, RxData, RxStop, RxDone

\* What a clock does to uart_tx.
LEMMA TxStep ==
  ASSUME EchoTypes, uart_tx
  PROVE  \/ /\ u_tx.state = "IDLE" /\ ~tx_start
            /\ u_tx' = TxIs("IDLE", 0, 0, u_tx.shreg, 1, FALSE)
         \/ /\ u_tx.state = "IDLE" /\ tx_start
            /\ u_tx' = TxIs("START", 0, 0, tx_data, 1, TRUE)
         \/ /\ u_tx.state = "START" /\ u_tx.clk_cnt # LAST
            /\ u_tx' = TxIs("START", u_tx.clk_cnt + 1, u_tx.bit_idx, u_tx.shreg, 0, u_tx.busy)
         \/ /\ u_tx.state = "START" /\ u_tx.clk_cnt = LAST
            /\ u_tx' = TxIs("DATA", 0, u_tx.bit_idx, u_tx.shreg, 0, u_tx.busy)
         \/ /\ u_tx.state = "DATA" /\ u_tx.clk_cnt # LAST
            /\ u_tx' = TxIs("DATA", u_tx.clk_cnt + 1, u_tx.bit_idx, u_tx.shreg,
                            u_tx.shreg[u_tx.bit_idx], u_tx.busy)
         \/ /\ u_tx.state = "DATA" /\ u_tx.clk_cnt = LAST /\ u_tx.bit_idx # 7
            /\ u_tx' = TxIs("DATA", 0, u_tx.bit_idx + 1, u_tx.shreg, u_tx.shreg[u_tx.bit_idx], u_tx.busy)
         \/ /\ u_tx.state = "DATA" /\ u_tx.clk_cnt = LAST /\ u_tx.bit_idx = 7
            /\ u_tx' = TxIs("STOP", 0, 0, u_tx.shreg, u_tx.shreg[u_tx.bit_idx], u_tx.busy)
         \/ /\ u_tx.state = "STOP" /\ u_tx.clk_cnt # LAST
            /\ u_tx' = TxIs("STOP", u_tx.clk_cnt + 1, u_tx.bit_idx, u_tx.shreg, 1, u_tx.busy)
         \/ /\ u_tx.state = "STOP" /\ u_tx.clk_cnt = LAST
            /\ u_tx' = TxIs("IDLE", 0, u_tx.bit_idx, u_tx.shreg, 1, FALSE)
<1>1. u_tx \in TxRegs /\ tx_start \in BOOLEAN
  BY DEF EchoTypes
<1>2. CASE TxIdle /\ tx_start
  <2>1. u_tx' = [u_tx EXCEPT !.tx = 1, !.clk_cnt = 0, !.bit_idx = 0, !.busy = TRUE,
                             !.shreg = tx_data, !.state = "START"]
    BY <1>1, <1>2 DEF TxIdle
  <2>2. QED
    BY <1>1, <1>2, <2>1 DEF TxIdle, TxRegs, TxIs
<1>3. CASE TxIdle /\ ~tx_start
  <2>1. u_tx' = [u_tx EXCEPT !.tx = 1, !.clk_cnt = 0, !.bit_idx = 0, !.busy = FALSE,
                             !.shreg = u_tx.shreg, !.state = "IDLE"]
    BY <1>1, <1>3 DEF TxIdle
  <2>2. QED
    BY <1>1, <1>3, <2>1 DEF TxIdle, TxRegs, TxIs
<1>4. CASE TxStart /\ u_tx.clk_cnt # LAST
  BY <1>1, <1>4 DEF TxStart, TxRegs, TxIs
<1>5. CASE TxStart /\ u_tx.clk_cnt = LAST
  BY <1>1, <1>5 DEF TxStart, TxRegs, TxIs
<1>6. CASE TxData /\ u_tx.clk_cnt # LAST
  BY <1>1, <1>6 DEF TxData, TxRegs, TxIs
<1>7. CASE TxData /\ u_tx.clk_cnt = LAST
  <2>1. u_tx' = TxIs(IF u_tx.bit_idx = 7 THEN "STOP" ELSE "DATA", 0, (u_tx.bit_idx + 1) % 8, u_tx.shreg,
                     u_tx.shreg[u_tx.bit_idx], u_tx.busy)
    BY <1>1, <1>7 DEF TxData, TxRegs, TxIs
  <2>2. CASE u_tx.bit_idx = 7
    <3>1. (u_tx.bit_idx + 1) % 8 = 0
      BY <2>2
    <3>2. QED
      BY <1>7, <2>1, <2>2, <3>1 DEF TxData
  <2>3. CASE u_tx.bit_idx # 7
    <3>1. (u_tx.bit_idx + 1) % 8 = u_tx.bit_idx + 1
      BY <1>1, <2>3 DEF TxRegs
    <3>2. QED
      BY <1>7, <2>1, <2>3, <3>1 DEF TxData
  <2>4. QED
    BY <2>2, <2>3
<1>8. CASE TxStop /\ u_tx.clk_cnt # LAST
  BY <1>1, <1>8 DEF TxStop, TxRegs, TxIs
<1>9. CASE TxStop /\ u_tx.clk_cnt = LAST
  BY <1>1, <1>9 DEF TxStop, TxRegs, TxIs
<1>10. QED
  BY <1>2, <1>3, <1>4, <1>5, <1>6, <1>7, <1>8, <1>9 DEF uart_tx, TxIdle, TxStart, TxData, TxStop

\* What a clock does to the host's sender.
LEMMA HostMoves ==
  ASSUME EchoTypes, HostOK, HostNext
  PROVE  \/ /\ host.pc = "idle"
            /\ host' = HostIs("idle", host.k, host.t, host.byte, IF host.wait = 0 THEN 0 ELSE host.wait - 1)
         \/ /\ host.pc = "idle" /\ host.wait = 0
            /\ \E t \in line.phases, b \in Bytes : host' = HostIs("send", 0, t, b, 0)
         \/ /\ host.pc = "send" /\ host.t + SUB < line.rate
            /\ host' = HostIs("send", host.k, host.t + SUB, host.byte, host.wait)
         \/ /\ host.pc = "send" /\ host.t + SUB >= line.rate /\ host.k < 9
            /\ host' = HostIs("send", host.k + 1, host.t + SUB - line.rate, host.byte, host.wait)
         \/ /\ host.pc = "send" /\ host.t + SUB >= line.rate /\ host.k = 9
            /\ host' = HostIs("idle", 0, 0, Blank, line.gap)
         \/ /\ host.pc = "send" /\ host.t + SUB >= line.rate /\ host.k = 9 /\ line.gap = 0
            /\ \E b \in Bytes : host' = HostIs("send", 0, host.t + SUB - line.rate, b, 0)
         \/ /\ host.pc = "idle" /\ host.wait = 0 /\ line.glitch > 0
            /\ host' = HostIs("glitch", line.glitch, host.t, host.byte, host.wait)
         \/ /\ host.pc = "glitch" /\ host.k > 1
            /\ host' = HostIs("glitch", host.k - 1, host.t, host.byte, host.wait)
         \/ /\ host.pc = "glitch"
            /\ host' = HostIs("idle", 0, host.t, host.byte, CLKS_PER_BIT)
<1>1. host \in HostType
  BY DEF EchoTypes, HostType
<1>2. CASE HostIdles
  BY <1>1, <1>2 DEF HostIdles, HostType, HostIs
<1>3. CASE HostBegins
  BY <1>1, <1>3 DEF HostBegins, Begins, HostIs
<1>4. CASE HostSends
  BY <1>1, <1>4 DEF HostSends, HostType, HostIs
<1>5. CASE HostNextBit
  BY <1>1, <1>5 DEF HostNextBit, HostType, HostIs
<1>6. CASE HostEnds
  BY <1>1, <1>6 DEF HostEnds, Begins, HostIs
<1>7. CASE HostGlitch
  BY <1>1, <1>7 DEF HostGlitch, HostType, HostIs
<1>8. CASE HostGlitches
  <2>1. CASE host.k > 1 /\ host' = [host EXCEPT !.k = @ - 1]
    BY <1>1, <1>8, <2>1 DEF HostGlitches, HostType, HostIs
  <2>2. CASE host' = [host EXCEPT !.pc = "idle", !.k = 0, !.wait = CLKS_PER_BIT]
    BY <1>1, <1>8, <2>2 DEF HostGlitches, HostType, HostIs
  <2>3. QED
    BY <1>8, <2>1, <2>2 DEF HostGlitches
<1>9. QED
  BY <1>2, <1>3, <1>4, <1>5, <1>6, <1>7, <1>8 DEF HostNext

LEMMA HostStep ==
  ASSUME EchoTypes, HostOK, HostNext, line' = line
  PROVE  host' \in HostType /\ HostOK'
<1> DEFINE r == line.rate
<1>1. /\ host.k \in Nat /\ host.t \in Nat /\ host.byte \in [0 .. 7 -> Bit] /\ host.wait \in Nat
      /\ Blank \in [0 .. 7 -> Bit] /\ Bytes \subseteq [0 .. 7 -> Bit] /\ line \in Lines
  BY Bits DEF EchoTypes, Byte8
<1>2. /\ r \in Nat /\ r > 0 /\ SUB \in Nat /\ SUB > 0 /\ line.gap \in Nat /\ line.glitch \in Nat
      /\ line.phases \subseteq 0 .. SUB - 1 /\ 3 * SUB <= r /\ CLKS_PER_BIT \in Nat
  BY <1>1, BitTime, LineTypes, BitsLong
<1>3. PICK p, k, t, b, w :
         /\ host' = HostIs(p, k, t, b, w)
         /\ p \in {"idle", "send", "glitch"} /\ k \in Nat /\ t \in Nat /\ b \in [0 .. 7 -> Bit] /\ w \in Nat
         /\ p = "send" => k \in 0 .. 9 /\ t < r
         /\ p = "glitch" => k \in 1 .. line.glitch
  <2>1. CASE host' = HostIs("idle", host.k, host.t, host.byte, IF host.wait = 0 THEN 0 ELSE host.wait - 1)
    <3>1. (IF host.wait = 0 THEN 0 ELSE host.wait - 1) \in Nat
      BY <1>1
    <3>2. QED
      BY <1>1, <2>1, <3>1
  <2>2. CASE \E t \in line.phases, b \in Bytes : host' = HostIs("send", 0, t, b, 0)
    BY <1>1, <1>2, <2>2
  <2>3. CASE host.pc = "send" /\ host.t + SUB < r
             /\ host' = HostIs("send", host.k, host.t + SUB, host.byte, host.wait)
    BY <1>1, <1>2, <2>3 DEF HostOK
  <2>4. CASE host.pc = "send" /\ host.t + SUB >= r /\ host.k < 9
             /\ host' = HostIs("send", host.k + 1, host.t + SUB - r, host.byte, host.wait)
    <3>1. host.t + SUB - r \in Nat /\ host.t + SUB - r < r /\ host.k + 1 \in 0 .. 9
      BY <1>1, <1>2, <2>4 DEF HostOK
    <3>2. QED
      BY <1>1, <2>4, <3>1
  <2>5. CASE host' = HostIs("idle", 0, 0, Blank, line.gap)
    BY <1>1, <1>2, <2>5
  <2>6. CASE host.pc = "send" /\ host.t + SUB >= r
             /\ \E b \in Bytes : host' = HostIs("send", 0, host.t + SUB - r, b, 0)
    <3>1. host.t + SUB - r \in Nat /\ host.t + SUB - r < r
      BY <1>1, <1>2, <2>6 DEF HostOK
    <3>2. QED
      BY <1>1, <2>6, <3>1
  <2>7. CASE line.glitch > 0 /\ host' = HostIs("glitch", line.glitch, host.t, host.byte, host.wait)
    BY <1>1, <1>2, <2>7
  <2>8. CASE host.pc = "glitch" /\ host.k > 1
             /\ host' = HostIs("glitch", host.k - 1, host.t, host.byte, host.wait)
    <3>1. host.k - 1 \in 1 .. line.glitch
      BY <1>1, <1>2, <2>8 DEF HostOK
    <3>2. QED
      BY <1>1, <2>8, <3>1
  <2>9. CASE host' = HostIs("idle", 0, host.t, host.byte, CLKS_PER_BIT)
    BY <1>1, <1>2, <2>9
  <2>10. QED
    BY <2>1, <2>2, <2>3, <2>4, <2>5, <2>6, <2>7, <2>8, <2>9, HostMoves
<1>4. host' \in HostType
  BY <1>3, HostMade
<1>5. host'.pc = p /\ host'.k = k /\ host'.t = t
  BY <1>3 DEF HostIs
<1>6. QED
  BY <1>3, <1>4, <1>5 DEF HostOK

LEMMA RxRegTypes == ASSUME EchoTypes, Shapes, uart_rx PROVE u_rx' \in RxRegs
<1>1. /\ u_rx.clk_cnt \in 0 .. LAST /\ u_rx.bit_idx \in 0 .. 7 /\ u_rx.data \in [0 .. 7 -> Bit]
      /\ HALF \in Nat /\ LAST \in Nat /\ HALF <= LAST /\ FALSE \in BOOLEAN /\ TRUE \in BOOLEAN
      /\ u_rx.state = "START" => u_rx.clk_cnt <= HALF
  BY BitTime DEF EchoTypes, RxRegs, Shapes
<1>2. [u_rx.data EXCEPT ![u_rx.bit_idx] = rx_sync] \in [0 .. 7 -> Bit]
  BY <1>1 DEF EchoTypes
<1>3. \E s \in {"IDLE", "START", "DATA", "STOP", "DONE"}, c \in 0 .. LAST, i \in 0 .. 7,
         v \in BOOLEAN, d \in [0 .. 7 -> Bit] : u_rx' = RxIs(s, c, i, v, d)
  <2>1. u_rx.state = "START" /\ u_rx.clk_cnt # HALF => u_rx.clk_cnt + 1 \in 0 .. LAST
    BY <1>1
  <2>2. u_rx.clk_cnt # LAST => u_rx.clk_cnt + 1 \in 0 .. LAST
    BY <1>1
  <2>3. u_rx.bit_idx # 7 => u_rx.bit_idx + 1 \in 0 .. 7
    BY <1>1
  <2>4. 0 \in 0 .. LAST /\ 0 \in 0 .. 7
    BY <1>1
  <2>5. QED
    BY <1>1, <1>2, <2>1, <2>2, <2>3, <2>4, RxStep, Zenon
<1>4. QED
  BY <1>3, RxMade

LEMMA TxRegTypes == ASSUME EchoTypes, uart_tx PROVE u_tx' \in TxRegs
<1>1. /\ u_tx.clk_cnt \in 0 .. LAST /\ u_tx.bit_idx \in 0 .. 7 /\ u_tx.shreg \in [0 .. 7 -> Bit]
      /\ LAST \in Nat /\ tx_data \in [0 .. 7 -> Bit]
  BY BitTime DEF EchoTypes, TxRegs
<1>2. u_tx.busy \in BOOLEAN /\ FALSE \in BOOLEAN /\ TRUE \in BOOLEAN
  BY DEF EchoTypes, TxRegs
<1>3. u_tx.shreg[u_tx.bit_idx] \in Bit /\ 0 \in Bit /\ 1 \in Bit
  BY <1>1 DEF Bit
<1>4. \E s \in {"IDLE", "START", "DATA", "STOP"}, c \in 0 .. LAST, i \in 0 .. 7,
         d \in [0 .. 7 -> Bit], w \in Bit, b \in BOOLEAN : u_tx' = TxIs(s, c, i, d, w, b)
  <2>1. u_tx.clk_cnt # LAST => u_tx.clk_cnt + 1 \in 0 .. LAST
    BY <1>1
  <2>2. u_tx.bit_idx # 7 => u_tx.bit_idx + 1 \in 0 .. 7
    BY <1>1
  <2>3. 0 \in 0 .. LAST /\ 0 \in 0 .. 7
    BY <1>1
  <2>4. QED
    BY <1>1, <1>2, <1>3, <2>1, <2>2, <2>3, TxStep, Zenon
<1>5. QED
  BY <1>4, TxMade

LEMMA ShapesStep ==
  ASSUME EchoTypes, Shapes, [EchoNext]_echoVars
  PROVE  Shapes'
<1>1. CASE UNCHANGED echoVars
  BY <1>1 DEF echoVars, Shapes
<1>2. CASE Clock(FALSE)
  <2>1. uart_rx /\ Echo /\ uart_tx
    BY <1>2 DEF Clock
  <2>2. /\ u_rx'.valid => u_rx'.state = "IDLE" /\ u_rx.state = "DONE"
        /\ u_rx'.state = "START" => u_rx'.bit_idx = 0 /\ u_rx'.clk_cnt <= HALF
    <3>1. u_rx.clk_cnt \in Nat /\ HALF \in Nat
      BY BitTime DEF EchoTypes, RxRegs
    <3>2. QED
      BY <2>1, <3>1, RxStep DEF RxIs, Shapes
  <2>3. /\ u_tx'.busy <=> u_tx'.state # "IDLE"
        /\ u_tx'.state # "DATA" => u_tx'.bit_idx = 0
        /\ u_tx'.state = "IDLE" => u_tx'.clk_cnt = 0
    BY <2>1, TxStep DEF TxIs, Shapes
  <2>4. tx_start' => u_rx.valid /\ ~tx_start /\ u_tx.state = "IDLE"
    BY <2>1 DEF Echo, Takes, Shapes
  <2>5. u_tx.state = "IDLE" /\ ~tx_start => u_tx'.state = "IDLE"
    BY <2>1, TxStep DEF TxIs
  <2>6. u_rx.state = "DONE" => ~tx_start'
    BY <2>1 DEF Echo, Takes, Shapes
  <2>7. QED
    BY <2>2, <2>3, <2>4, <2>5, <2>6 DEF Shapes
<1>3. CASE Clock(TRUE)
  <2>1. Reset
    BY <1>3 DEF Clock
  <2>2. HALF \in Nat
    BY BitTime
  <2>3. QED
    BY <2>1, <2>2 DEF Reset, Shapes
<1>4. QED
  BY <1>1, <1>2, <1>3 DEF EchoNext

LEMMA TermTypes ==
  ASSUME EchoTypes, TermNext
  PROVE  term' \in [k : 0 .. 11, t : Nat, bits : [0 .. 7 -> Bit]]
<1>1. /\ term \in [k : 0 .. 11, t : Nat, bits : [0 .. 7 -> Bit]] /\ u_tx.tx \in Bit
      /\ SUB \in Nat /\ Blank \in [0 .. 7 -> Bit]
  BY BitTime, Bits DEF EchoTypes, TxRegs, Byte8
<1>2. CASE TermIdles
  BY <1>1, <1>2 DEF TermIdles
<1>3. CASE TermFalls
  BY <1>1, <1>3 DEF TermFalls
<1>4. CASE TermWaits
  BY <1>1, <1>4 DEF TermWaits
<1>5. CASE TermSamples
  <2> USE <1>1, <1>5 DEF TermSamples
  <2>1. term.k < 10 /\ term.k # 1 => [term.bits EXCEPT ![term.k - 2] = u_tx.tx] \in [0 .. 7 -> Bit]
    BY <1>1
  <2>2. Resting \in [k : 0 .. 11, t : Nat, bits : [0 .. 7 -> Bit]]
    BY <1>1 DEF Resting
  <2>3. CASE term.k = 1
    <3>1. term' = Resting \/ term' = [k |-> 2, t |-> term.t + SUB, bits |-> term.bits]
      BY <2>3
    <3>2. QED
      BY <2>2, <3>1
  <2>4. CASE term.k # 1 /\ term.k < 10
    <3>1. term' = [k |-> term.k + 1, t |-> term.t + SUB, bits |-> [term.bits EXCEPT ![term.k - 2] = u_tx.tx]]
      BY <2>4
    <3>2. QED
      BY <2>1, <2>4, <3>1
  <2>5. CASE term.k = 10
    BY <2>2, <2>5
  <2>6. QED
    BY <2>3, <2>4, <2>5
<1>6. CASE TermTakes
  BY <1>1, <1>6 DEF TermTakes, Resting
<1>7. QED
  BY <1>2, <1>3, <1>4, <1>5, <1>6 DEF TermNext

LEMMA DropSeq ==
  ASSUME NEW s \in Seq(Byte8)
  PROVE  Drop1(s) \in Seq(Byte8)
<1>1. s # <<>> => Tail(s) \in Seq(Byte8)
  OBVIOUS
<1>2. QED
  BY <1>1 DEF Drop1

LEMMA HistoryTypes ==
  ASSUME EchoTypes, host' \in HostType, NEW rst \in BOOLEAN, History(rst)
  PROVE  calm' \in BOOLEAN /\ owed' \in Seq(Byte8) /\ due' \in Seq(Byte8)
<1>1. /\ owed \in Seq(Byte8) /\ due \in Seq(Byte8) /\ u_rx.data \in Byte8 /\ host'.byte \in Byte8
  BY DEF EchoTypes, RxRegs, HostType, Byte8
<1>2. calm' \in BOOLEAN
  BY Zenon DEF History
<1>3. <<>> \in Seq(Byte8)
  BY Zenon, EmptySeq
<1>4. CASE ~calm'
  BY <1>2, <1>3, <1>4 DEF History
<1>5. CASE calm'
  <2> DEFINE ro == IF u_rx.valid THEN Drop1(owed) ELSE owed
             rdue == IF term.k = 11 THEN Drop1(due) ELSE due
  <2>1. ro \in Seq(Byte8) /\ rdue \in Seq(Byte8)
    BY <1>1, DropSeq
  <2>2. Append(ro, host'.byte) \in Seq(Byte8) /\ Append(rdue, u_rx.data) \in Seq(Byte8)
    <3> HIDE DEF ro, rdue
    <3>1. QED
      BY <1>1, <2>1
  <2>3. owed' \in {ro, Append(ro, host'.byte)} /\ due' \in {rdue, Append(rdue, u_rx.data)}
    BY <1>5 DEF History
  <2>4. QED
    BY <1>2, <2>1, <2>2, <2>3
<1>6. QED
  BY <1>4, <1>5

LEMMA ResetTypes ==
  ASSUME Reset
  PROVE  u_rx' \in RxRegs /\ u_tx' \in TxRegs /\ tx_start' \in BOOLEAN /\ tx_data' \in Byte8
<1>1. Blank \in [0 .. 7 -> Bit] /\ 0 \in 0 .. LAST /\ 1 \in Bit
  BY Bits, BitTime DEF Byte8
<1>2. u_rx' = RxIs("IDLE", 0, 0, FALSE, Blank) /\ u_tx' = TxIs("IDLE", 0, 0, Blank, 1, FALSE)
  BY DEF Reset, RxIs, TxIs
<1>3. u_rx' \in RxRegs /\ u_tx' \in TxRegs
  <2>1. 0 \in 0 .. 7
    OBVIOUS
  <2>2. QED
    BY <1>1, <1>2, <2>1, RxMade, TxMade, Zenon
<1>4. QED
  BY <1>1, <1>3 DEF Reset, Byte8

LEMMA EchoTypesStep ==
  ASSUME EchoTypes, HostOK, Shapes, [EchoNext]_echoVars
  PROVE  EchoTypes' /\ HostOK' /\ Shapes'
<1>1. ASSUME NEW rst \in BOOLEAN, Clock(rst), resets' \in Nat PROVE EchoTypes' /\ HostOK'
  <2>1. line' = line /\ host' \in HostType /\ HostOK'
    BY <1>1, HostStep DEF Clock
  <2>2. term' \in [k : 0 .. 11, t : Nat, bits : [0 .. 7 -> Bit]]
    BY <1>1, TermTypes DEF Clock
  <2>3. rx_d0' \in Bit /\ rx_sync' \in Bit
    BY <1>1, WireIsBit DEF Clock, Synchronize, EchoTypes
  <2>4. calm' \in BOOLEAN /\ owed' \in Seq(Byte8) /\ due' \in Seq(Byte8)
    BY <1>1, <2>1, HistoryTypes DEF Clock
  <2>5. u_rx' \in RxRegs /\ u_tx' \in TxRegs /\ tx_start' \in BOOLEAN /\ tx_data' \in Byte8
    <3>1. CASE rst
      BY <1>1, <3>1, ResetTypes DEF Clock
    <3>2. CASE ~rst
      <4>1. uart_rx /\ Echo /\ uart_tx
        BY <1>1, <3>2 DEF Clock
      <4>2. u_rx' \in RxRegs /\ u_tx' \in TxRegs
        BY <4>1, RxRegTypes, TxRegTypes
      <4>3. tx_start' \in BOOLEAN
        BY <4>1, Zenon DEF Echo, Takes, EchoTypes
      <4>4. tx_data' \in Byte8
        BY <4>1 DEF Echo, EchoTypes, RxRegs, Byte8
      <4>5. QED
        BY <4>2, <4>3, <4>4
    <3>3. QED
      BY <3>1, <3>2
  <2>6. QED
    BY <1>1, <2>1, <2>2, <2>3, <2>4, <2>5 DEF EchoTypes, HostType, Byte8
<1>2. CASE Clock(FALSE) /\ UNCHANGED resets
  BY <1>1, <1>2, ShapesStep DEF EchoTypes
<1>3. CASE resets < line.resets /\ resets' = resets + 1 /\ Clock(TRUE)
  <2>1. resets' \in Nat
    BY <1>3 DEF EchoTypes
  <2>2. QED
    BY <1>1, <1>3, <2>1, ShapesStep
<1>4. CASE UNCHANGED echoVars
  BY <1>4, ShapesStep DEF echoVars, EchoTypes, HostOK
<1>5. QED
  BY <1>2, <1>3, <1>4 DEF EchoNext

LEMMA EchoTypesInit == EchoInit => EchoTypes /\ HostOK /\ Shapes
<1> SUFFICES ASSUME EchoInit PROVE EchoTypes /\ HostOK /\ Shapes
  OBVIOUS
<1>1. Blank \in [0 .. 7 -> Bit] /\ 0 \in 0 .. LAST /\ 0 \in Bit /\ 1 \in Bit
  BY Bits, BitTime DEF Byte8
<1>2. u_rx \in RxRegs /\ u_tx \in TxRegs
  BY <1>1 DEF EchoInit, RxRegs, TxRegs
<1>3. /\ host \in [pc : {"idle", "send", "glitch"}, k : Nat, t : Nat, byte : [0 .. 7 -> Bit], wait : Nat]
      /\ term \in [k : 0 .. 11, t : Nat, bits : [0 .. 7 -> Bit]]
  BY <1>1 DEF EchoInit
<1>4. owed \in Seq([0 .. 7 -> Bit]) /\ due \in Seq([0 .. 7 -> Bit])
  <2>1. owed = <<>> /\ due = <<>>
    BY DEF EchoInit
  <2>2. QED
    BY <2>1, EmptySeq, Zenon
<1>5. HostOK
  BY DEF EchoInit, HostOK
<1>6. Shapes
  BY DEF EchoInit, Shapes
<1>7. QED
  BY <1>1, <1>2, <1>3, <1>4, <1>5, <1>6 DEF EchoInit, EchoTypes

\* Every register and every history variable of the echo keeps its type.
THEOREM EchoTypeCorrect == EchoSpec => []EchoTypes
<1>1. EchoInit => EchoTypes /\ HostOK /\ Shapes
  BY EchoTypesInit
<1>2. EchoTypes /\ HostOK /\ Shapes /\ [EchoNext]_echoVars => (EchoTypes /\ HostOK /\ Shapes)'
  BY EchoTypesStep
<1>3. QED
  BY <1>1, <1>2, PTL DEF EchoSpec
-----------------------------------------------------------------------------
(* The receiver keeps to the host's frame.                                  *)

\* Bit k of the frame that carries byte b.
FrameBit(b, k) == IF k = 0 THEN 0 ELSE IF k = 9 THEN 1 ELSE b[k - 1]

\* Parts of a clock since the host began its frame.
Since == host.k * line.rate + host.t

\* Clocks since then by the receiver's count.
Age(q) == CASE q.state = "START" -> 3 + q.clk_cnt
            [] q.state = "DATA"  -> 4 + HALF + q.bit_idx * CLKS_PER_BIT + q.clk_cnt
            [] q.state = "STOP"  -> 4 + HALF + 8 * CLKS_PER_BIT + q.clk_cnt
            [] q.state = "DONE"  -> 4 + HALF + 9 * CLKS_PER_BIT
            [] OTHER             -> 5 + HALF + 9 * CLKS_PER_BIT

\* The synchronizer shows the wire one and two clocks late.
Synced ==
  /\ host.pc = "send" =>
       LET before == IF host.k = 0 THEN 1 ELSE FrameBit(host.byte, host.k - 1) IN
       /\ rx_d0   = IF host.t >= SUB     THEN FrameBit(host.byte, host.k) ELSE before
       /\ rx_sync = IF host.t >= 2 * SUB THEN FrameBit(host.byte, host.k) ELSE before
  /\ host.pc = "glitch" =>
       /\ rx_d0   = IF host.k + 1 <= line.glitch THEN 0 ELSE 1
       /\ rx_sync = IF host.k + 2 <= line.glitch THEN 0 ELSE 1
  /\ host.pc = "idle" =>
       /\ rx_d0 = 0 => host.wait = CLKS_PER_BIT /\ u_rx.state # "STOP"
       /\ rx_sync = 0 => /\ CLKS_PER_BIT <= host.wait + 1 /\ host.wait <= CLKS_PER_BIT
                         /\ host.wait + 1 <= CLKS_PER_BIT + HALF
                         /\ u_rx.state \in {"IDLE", "START"}

\* The byte that uart_rx has and has not announced.
Left == IF u_rx.valid \/ u_rx.state \in {"STOP", "DONE"} THEN <<u_rx.data>> ELSE <<>>

\* e clocks after the host's frame, or a pulse, began, the frame before is all but over.
Ending(e) == \/ u_rx.state = "STOP" /\ u_rx.clk_cnt = LAST /\ e = 0
             \/ u_rx.state = "DONE" /\ e <= 1
             \/ u_rx.state = "IDLE"

SendEarly ==
  /\ host.k = 0
  /\ \/ host.t < SUB /\ Ending(0)
     \/ SUB <= host.t /\ host.t < 2 * SUB /\ Ending(1)
     \/ 2 * SUB <= host.t /\ host.t < 3 * SUB /\ Ending(2)
  /\ owed = Left \o <<host.byte>>

SendIn ==
  /\ u_rx.state = "IDLE" => u_rx.valid
  /\ Age(u_rx) * SUB <= Since /\ Since < (Age(u_rx) + 1) * SUB
  /\ owed = <<host.byte>>
  /\ u_rx.state = "DATA" => \A i \in 0 .. 7 : i < u_rx.bit_idx => u_rx.data[i] = host.byte[i]
  /\ u_rx.state \in {"STOP", "DONE", "IDLE"} => u_rx.data = host.byte

SendPast == /\ host.k = 9 /\ 2 * SUB <= host.t
            /\ u_rx.state = "IDLE" /\ ~u_rx.valid /\ owed = <<>>

InGlitch ==
  /\ \/ \E e \in 0 .. 2 : host.k + e = line.glitch /\ Ending(e)
     \/ host.k + 2 < line.glitch /\ u_rx.state = "START" /\ host.k + u_rx.clk_cnt + 3 = line.glitch
  /\ owed = Left

InIdle ==
  /\ u_rx.state # "DATA"
  /\ u_rx.state = "STOP" => u_rx.clk_cnt = LAST
  /\ u_rx.state = "START" => /\ CLKS_PER_BIT <= host.wait + u_rx.clk_cnt + 2
                             /\ host.wait + u_rx.clk_cnt + 2 <= CLKS_PER_BIT + HALF
  /\ owed = Left

Phase ==
  /\ host.pc = "send" => SendEarly \/ SendIn \/ SendPast
  /\ host.pc = "glitch" => InGlitch
  /\ host.pc = "idle" => InIdle

\* Nothing is in the history while a reset's upset lasts; the line at rest starts anew.
RxInv ==
  /\ ~calm => owed = <<>> /\ due = <<>>
  /\ calm \/ AtRest => Synced /\ Phase

EchoOK == EchoTypes /\ HostOK /\ Shapes

\* A clock without reset.
Ticks == /\ EchoOK /\ EchoOK' /\ HostNext /\ Synchronize /\ uart_rx /\ Echo /\ uart_tx /\ TermNext
         /\ History(FALSE) /\ calm' /\ line' = line

Begun == host'.pc = "send" /\ host'.k = 0 /\ (host.pc = "idle" \/ host.k = 9)

LEMMA OwedIs ==
  ASSUME Ticks
  PROVE  owed' = LET rest == IF u_rx.valid THEN Drop1(owed) ELSE owed IN
                 IF Begun THEN Append(rest, host'.byte) ELSE rest
  BY DEF Ticks, History, Begun

LEMMA Now ==
  ASSUME EchoOK
  PROVE  /\ host.pc \in {"idle", "send", "glitch"} /\ host.k \in Nat /\ host.t \in Nat /\ host.wait \in Nat
         /\ host.byte \in Byte8 /\ line \in Lines
         /\ line.rate \in Nat /\ line.rate > 0 /\ 3 * SUB <= line.rate /\ line.gap \in Nat
         /\ line.glitch \in Nat /\ line.glitch <= HALF + 1 /\ line.phases \subseteq 0 .. SUB - 1
         /\ host.pc = "send" => host.k \in 0 .. 9 /\ host.t < line.rate
         /\ host.pc = "glitch" => 1 <= host.k /\ host.k <= line.glitch
         /\ Since \in Nat
         /\ u_rx.state \in {"IDLE", "START", "DATA", "STOP", "DONE"} /\ u_rx.clk_cnt \in 0 .. LAST
         /\ u_rx.bit_idx \in 0 .. 7 /\ u_rx.data \in Byte8
         /\ u_rx.valid => u_rx.state = "IDLE"
         /\ u_rx.state = "START" => u_rx.bit_idx = 0 /\ u_rx.clk_cnt <= HALF
         /\ rx_d0 \in {0, 1} /\ rx_sync \in {0, 1}
<1>1. /\ host.pc \in {"idle", "send", "glitch"} /\ host.k \in Nat /\ host.t \in Nat /\ host.wait \in Nat
      /\ host.byte \in Byte8 /\ line \in Lines
  BY DEF EchoOK, EchoTypes, Byte8
<1>2. /\ line.rate \in Nat /\ line.rate > 0 /\ 3 * SUB <= line.rate /\ line.gap \in Nat
      /\ line.glitch \in Nat /\ line.glitch <= HALF + 1 /\ line.phases \subseteq 0 .. SUB - 1
  BY <1>1, LineTypes, BitsLong, GlitchShort
<1>3. Since \in Nat
  BY <1>1, <1>2 DEF Since
<1>4. /\ u_rx.state \in {"IDLE", "START", "DATA", "STOP", "DONE"} /\ u_rx.clk_cnt \in 0 .. LAST
      /\ u_rx.bit_idx \in 0 .. 7 /\ u_rx.data \in Byte8
      /\ rx_d0 \in {0, 1} /\ rx_sync \in {0, 1}
  BY DEF EchoOK, EchoTypes, RxRegs, Byte8, Bit
<1>5. QED
  BY <1>1, <1>2, <1>3, <1>4 DEF EchoOK, HostOK, Shapes

\* What becomes of a frame in one clock: it goes on, it is over, or the next one begins.
FrameGoes == /\ host'.pc = "send" /\ host'.byte = host.byte /\ Since' = Since + SUB /\ ~Begun
             /\ \/ host'.k = host.k /\ host'.t = host.t + SUB
                \/ host'.k = host.k + 1 /\ host'.t < SUB /\ 2 * SUB <= host.t
FrameEnds == host.k = 9 /\ line.rate <= host.t + SUB /\ 2 * SUB <= host.t
FrameOver == FrameEnds /\ host'.pc = "idle" /\ host'.wait = line.gap
FrameNext == /\ FrameEnds /\ line.gap = 0 /\ host'.pc = "send" /\ host'.k = 0 /\ host'.t < SUB /\ host'.byte \in Byte8

LEMMA SendMoves ==
  ASSUME Ticks, host.pc = "send"
  PROVE  FrameGoes \/ FrameOver \/ FrameNext
<1>1. EchoOK /\ EchoTypes /\ HostOK /\ HostNext /\ line' = line
  BY DEF Ticks, EchoOK
<1>2. /\ host.k \in 0 .. 9 /\ host.t \in Nat /\ host.t < line.rate /\ 3 * SUB <= line.rate
      /\ line.rate \in Nat /\ SUB \in Nat /\ SUB > 0 /\ host.byte \in Byte8
  BY <1>1, Now, BitTime
<1>3. CASE host' = HostIs("send", host.k, host.t + SUB, host.byte, host.wait)
  <2>1. host'.pc = "send" /\ host'.k = host.k /\ host'.t = host.t + SUB /\ host'.byte = host.byte
    BY <1>3 DEF HostIs
  <2>2. Since' = Since + SUB
    BY <1>1, <1>2, <2>1 DEF Since
  <2>3. ~Begun
    BY <2>1 DEF Begun
  <2>4. QED
    BY <2>1, <2>2, <2>3 DEF FrameGoes
<1>4. CASE host.t + SUB >= line.rate /\ host' = HostIs("send", host.k + 1, host.t + SUB - line.rate, host.byte, host.wait)
  <2>1. host'.pc = "send" /\ host'.k = host.k + 1 /\ host'.t = host.t + SUB - line.rate /\ host'.byte = host.byte
    BY <1>4 DEF HostIs
  <2>2. Since' = Since + SUB
    <3>1. (host.k + 1) * line.rate = host.k * line.rate + line.rate /\ host.k * line.rate \in Nat
      BY <1>2
    <3>2. QED
      BY <1>1, <1>2, <2>1, <3>1 DEF Since
  <2>3. ~Begun
    BY <1>2, <2>1 DEF Begun
  <2>4. QED
    BY <1>2, <1>4, <2>1, <2>2, <2>3 DEF FrameGoes
<1>5. CASE host.t + SUB >= line.rate /\ host.k = 9 /\ host' = HostIs("idle", 0, 0, Blank, line.gap)
  BY <1>2, <1>5 DEF HostIs, FrameOver, FrameEnds
<1>6. CASE host.t + SUB >= line.rate /\ host.k = 9 /\ line.gap = 0
            /\ \E b \in Bytes : host' = HostIs("send", 0, host.t + SUB - line.rate, b, 0)
  BY <1>2, <1>6, Bits DEF HostIs, FrameNext, FrameEnds
<1>7. QED
  BY <1>1, <1>3, <1>4, <1>5, <1>6, HostMoves

\* What becomes of the idle line and of a low pulse on it.
LEMMA IdleMoves ==
  ASSUME Ticks, host.pc = "idle"
  PROVE  \/ /\ host'.pc = "idle" /\ ~Begun
            /\ host'.wait = IF host.wait = 0 THEN 0 ELSE host.wait - 1
         \/ /\ host.wait = 0 /\ host'.pc = "send" /\ host'.k = 0 /\ host'.t < SUB
            /\ host'.byte \in Byte8 /\ Begun
         \/ host.wait = 0 /\ host'.pc = "glitch" /\ host'.k = line.glitch /\ ~Begun
<1>1. EchoOK /\ EchoTypes /\ HostOK /\ HostNext /\ line' = line
  BY DEF Ticks, EchoOK
<1>2. line.phases \subseteq 0 .. SUB - 1 /\ SUB \in Nat /\ Bytes \subseteq Byte8
  BY <1>1, Now, BitTime, Bits
<1>3. CASE \E t \in line.phases, b \in Bytes : host.wait = 0 /\ host' = HostIs("send", 0, t, b, 0)
  BY <1>2, <1>3 DEF HostIs, Begun
<1>4. QED
  BY <1>1, <1>3, HostMoves DEF HostIs, Begun

LEMMA GlitchMoves ==
  ASSUME Ticks, host.pc = "glitch"
  PROVE  /\ ~Begun
         /\ \/ host'.pc = "glitch" /\ host.k = host'.k + 1 /\ host'.k >= 1
            \/ host'.pc = "idle" /\ host'.wait = CLKS_PER_BIT
<1>1. EchoOK /\ EchoTypes /\ HostOK /\ HostNext /\ line' = line /\ host.k \in Nat
  BY Now DEF Ticks, EchoOK
<1>2. QED
  BY <1>1, HostMoves DEF HostIs, Begun

LEMMA RxNow ==
  ASSUME Ticks
  PROVE  \/ u_rx.state = "IDLE" /\ rx_sync = 1 /\ u_rx'.state = "IDLE" /\ ~u_rx'.valid
         \/ u_rx.state = "IDLE" /\ rx_sync = 0 /\ u_rx'.state = "START" /\ ~u_rx'.valid
            /\ u_rx'.clk_cnt = 0
         \/ u_rx.state = "START" /\ u_rx.clk_cnt < HALF /\ u_rx'.state = "START" /\ ~u_rx'.valid
            /\ u_rx'.clk_cnt = u_rx.clk_cnt + 1
         \/ u_rx.state = "START" /\ u_rx.clk_cnt = HALF /\ rx_sync = 0 /\ u_rx'.state = "DATA" /\ ~u_rx'.valid
            /\ u_rx'.clk_cnt = 0 /\ u_rx'.bit_idx = 0
         \/ u_rx.state = "START" /\ u_rx.clk_cnt = HALF /\ rx_sync = 1 /\ u_rx'.state = "IDLE" /\ ~u_rx'.valid
         \/ u_rx.state = "DATA" /\ u_rx.clk_cnt < LAST /\ u_rx'.state = "DATA" /\ ~u_rx'.valid
            /\ u_rx'.clk_cnt = u_rx.clk_cnt + 1 /\ u_rx'.bit_idx = u_rx.bit_idx /\ u_rx'.data = u_rx.data
         \/ u_rx.state = "DATA" /\ u_rx.clk_cnt = LAST /\ u_rx.bit_idx < 7
            /\ u_rx'.state = "DATA" /\ ~u_rx'.valid /\ u_rx'.clk_cnt = 0 /\ u_rx'.bit_idx = u_rx.bit_idx + 1
            /\ u_rx'.data = [u_rx.data EXCEPT ![u_rx.bit_idx] = rx_sync]
         \/ u_rx.state = "DATA" /\ u_rx.clk_cnt = LAST /\ u_rx.bit_idx = 7
            /\ u_rx'.state = "STOP" /\ ~u_rx'.valid /\ u_rx'.clk_cnt = 0
            /\ u_rx'.data = [u_rx.data EXCEPT ![u_rx.bit_idx] = rx_sync]
         \/ u_rx.state = "STOP" /\ u_rx.clk_cnt < LAST /\ u_rx'.state = "STOP" /\ ~u_rx'.valid
            /\ u_rx'.clk_cnt = u_rx.clk_cnt + 1 /\ u_rx'.data = u_rx.data
         \/ u_rx.state = "STOP" /\ u_rx.clk_cnt = LAST /\ u_rx'.state = "DONE" /\ ~u_rx'.valid
            /\ u_rx'.data = u_rx.data
         \/ u_rx.state = "DONE" /\ u_rx'.state = "IDLE" /\ u_rx'.valid /\ u_rx'.data = u_rx.data
<1>1. EchoOK /\ EchoTypes /\ uart_rx
  BY DEF Ticks, EchoOK
<1>2. /\ u_rx.clk_cnt \in 0 .. LAST /\ u_rx.bit_idx \in 0 .. 7
      /\ u_rx.state = "START" => u_rx.bit_idx = 0 /\ u_rx.clk_cnt <= HALF
      /\ HALF \in Nat /\ LAST \in Nat
  BY <1>1, Now, BitTime
<1>3. /\ u_rx.clk_cnt # LAST <=> u_rx.clk_cnt < LAST
      /\ u_rx.state = "START" => (u_rx.clk_cnt # HALF <=> u_rx.clk_cnt < HALF)
      /\ u_rx.bit_idx # 7 <=> u_rx.bit_idx < 7
  BY <1>2
<1>4. QED
  BY <1>1, <1>2, <1>3, RxStep DEF RxIs

LEMMA SyncedSend ==
  ASSUME Ticks, Synced, host.pc = "send"
  PROVE  Synced'
<1>1. EchoOK /\ rx_d0' = uart_txd_in /\ rx_sync' = rx_d0
  BY DEF Ticks, Synchronize
<1>2. /\ host.k \in 0 .. 9 /\ host.t \in Nat /\ host.t < line.rate /\ 3 * SUB <= line.rate
      /\ line.rate \in Nat /\ SUB \in Nat /\ SUB > 0 /\ host'.t \in Nat
  BY <1>1, Now, BitTime DEF Ticks, EchoOK, EchoTypes
<1>3. rx_d0' = FrameBit(host.byte, host.k)
  BY <1>1 DEF uart_txd_in, FrameBit
<1>4. rx_d0 = IF host.t >= SUB THEN FrameBit(host.byte, host.k)
              ELSE IF host.k = 0 THEN 1 ELSE FrameBit(host.byte, host.k - 1)
  BY DEF Synced
<1>5. CASE FrameGoes
  <2>1. \A n : FrameBit(host'.byte, n) = FrameBit(host.byte, n)
    BY <1>5 DEF FrameGoes, FrameBit
  <2>2. CASE host'.k = host.k /\ host'.t = host.t + SUB
    <3>1. host'.t >= SUB /\ (host'.t >= 2 * SUB <=> host.t >= SUB)
      BY <1>2, <2>2
    <3>2. QED
      BY <1>1, <1>3, <1>4, <1>5, <2>1, <2>2, <3>1 DEF Synced, FrameGoes
  <2>3. CASE host'.k = host.k + 1 /\ host'.t < SUB /\ 2 * SUB <= host.t
    <3>1. ~(host'.t >= SUB) /\ ~(host'.t >= 2 * SUB) /\ host.t >= SUB /\ host'.k # 0 /\ host'.k - 1 = host.k
      BY <1>2, <2>3
    <3>2. QED
      BY <1>1, <1>3, <1>4, <1>5, <2>1, <3>1 DEF Synced, FrameGoes
  <2>4. QED
    BY <1>5, <2>2, <2>3 DEF FrameGoes
<1>6. CASE FrameOver \/ FrameNext
  <2>1. rx_d0' = 1 /\ rx_sync' = 1
    <3>1. host.k = 9 /\ host.t >= SUB
      BY <1>2, <1>6 DEF FrameOver, FrameNext, FrameEnds
    <3>2. QED
      BY <1>1, <1>3, <1>4, <3>1 DEF FrameBit
  <2>2. CASE FrameOver
    BY <2>1, <2>2 DEF FrameOver, Synced
  <2>3. CASE FrameNext
    <3>1. ~(host'.t >= SUB) /\ ~(host'.t >= 2 * SUB) /\ host'.k = 0
      BY <1>2, <2>3 DEF FrameNext
    <3>2. QED
      BY <2>1, <2>3, <3>1 DEF FrameNext, Synced
  <2>4. QED
    BY <1>6, <2>2, <2>3
<1>7. QED
  BY <1>5, <1>6, SendMoves

\* The receiver goes no further than the start bit while the line is idle or low for a moment.
LEMMA SyncedIdle ==
  ASSUME Ticks, Synced, host.pc = "idle", InIdle
  PROVE  Synced'
<1>1. EchoOK /\ rx_d0' = 1 /\ rx_sync' = rx_d0 /\ line' = line
  BY DEF Ticks, Synchronize, uart_txd_in
<1>2. /\ host.wait \in Nat /\ CLKS_PER_BIT \in Nat /\ 4 <= CLKS_PER_BIT /\ HALF \in Nat /\ HALF + 2 < CLKS_PER_BIT
      /\ SUB \in Nat /\ SUB > 0 /\ rx_d0 \in {0, 1} /\ host'.t \in Nat /\ line.glitch \in Nat
      /\ rx_sync \in {0, 1}
  BY <1>1, Now, BitTime, BitsLong DEF Ticks, EchoOK, EchoTypes
<1>3. rx_d0 = 0 => host.wait = CLKS_PER_BIT /\ u_rx.state # "STOP"
  BY DEF Synced
<1>4. CASE host'.pc = "idle" /\ host'.wait = IF host.wait = 0 THEN 0 ELSE host.wait - 1
  <2>1. SUFFICES ASSUME rx_d0 = 0
                 PROVE  /\ CLKS_PER_BIT <= host'.wait + 1 /\ host'.wait <= CLKS_PER_BIT
                        /\ host'.wait + 1 <= CLKS_PER_BIT + HALF
                        /\ u_rx'.state \in {"IDLE", "START"}
    BY <1>1, <1>4 DEF Synced
  <2>2. host'.wait = CLKS_PER_BIT - 1
    BY <1>2, <1>3, <1>4, <2>1
  <2>3. u_rx.state # "STOP" /\ u_rx.state # "DATA"
    BY <1>3, <2>1 DEF InIdle
  <2>4. u_rx.state = "START" /\ rx_sync = 0 => u_rx.clk_cnt # HALF
    <3>1. SUFFICES ASSUME u_rx.state = "START", rx_sync = 0, u_rx.clk_cnt = HALF PROVE FALSE
      OBVIOUS
    <3>2. host.wait = CLKS_PER_BIT /\ host.wait + u_rx.clk_cnt + 2 <= CLKS_PER_BIT + HALF
      BY <1>3, <2>1, <3>1 DEF InIdle
    <3>3. QED
      BY <1>2, <3>1, <3>2
  <2>5. u_rx'.state \in {"IDLE", "START"}
    BY <2>3, <2>4, RxNow
  <2>6. QED
    BY <1>2, <2>2, <2>5
<1>5. CASE host.wait = 0 /\ host'.pc = "send" /\ host'.k = 0 /\ host'.t < SUB
  <2>1. rx_d0 = 1
    BY <1>2, <1>3, <1>5
  <2>2. ~(host'.t >= SUB) /\ ~(host'.t >= 2 * SUB)
    BY <1>2, <1>5
  <2>3. QED
    BY <1>1, <1>5, <2>1, <2>2 DEF Synced
<1>6. CASE host.wait = 0 /\ host'.pc = "glitch" /\ host'.k = line.glitch
  <2>1. rx_d0 = 1
    BY <1>2, <1>3, <1>6
  <2>2. QED
    BY <1>1, <1>2, <1>6, <2>1 DEF Synced
<1>7. QED
  BY <1>4, <1>5, <1>6, IdleMoves

LEMMA SyncedGlitch ==
  ASSUME Ticks, Synced, host.pc = "glitch", InGlitch
  PROVE  Synced'
<1>1. EchoOK /\ rx_d0' = 0 /\ rx_sync' = rx_d0 /\ line' = line
  BY DEF Ticks, Synchronize, uart_txd_in
<1>2. /\ CLKS_PER_BIT \in Nat /\ 4 <= CLKS_PER_BIT /\ HALF \in Nat
      /\ line.glitch \in Nat /\ line.glitch <= HALF + 1 /\ 1 <= host.k /\ host.k <= line.glitch /\ host.k \in Nat
      /\ rx_sync \in {0, 1} /\ host'.k \in Nat /\ u_rx.clk_cnt \in Nat
  <2>1. line \in Lines /\ u_rx.clk_cnt \in 0 .. LAST /\ rx_sync \in {0, 1} /\ host.k \in Nat
        /\ line.glitch \in Nat /\ line.glitch <= HALF + 1 /\ 1 <= host.k /\ host.k <= line.glitch
    BY <1>1, Now
  <2>2. host'.k \in Nat
    BY DEF Ticks, EchoOK, EchoTypes
  <2>3. QED
    BY <2>1, <2>2, BitTime, BitsLong
<1>3. rx_d0 = IF host.k + 1 <= line.glitch THEN 0 ELSE 1
  BY DEF Synced
<1>4. CASE host'.pc = "glitch" /\ host.k = host'.k + 1
  <2>1. host'.k + 1 <= line.glitch /\ (host'.k + 2 <= line.glitch <=> host.k + 1 <= line.glitch)
    BY <1>2, <1>4
  <2>2. QED
    BY <1>1, <1>3, <1>4, <2>1 DEF Synced
<1>5. CASE host'.pc = "idle" /\ host'.wait = CLKS_PER_BIT
  <2>1. u_rx'.state # "STOP"
    <3>1. u_rx.state # "DATA" /\ (u_rx.state = "STOP" => u_rx.clk_cnt = LAST)
      BY DEF InGlitch, Ending
    <3>2. LAST \in Nat
      BY BitTime
    <3>3. QED
      BY <3>1, <3>2, RxNow
  <2>2. ASSUME rx_d0 = 0
        PROVE  HALF >= 1 /\ u_rx'.state \in {"IDLE", "START"}
    <3>1. host.k + 1 <= line.glitch
      BY <1>3, <2>2
    <3>2. HALF >= 1
      BY <1>2, <3>1
    <3>3. u_rx.state \in {"IDLE", "DONE"} \/ (u_rx.state = "START" /\ u_rx.clk_cnt < HALF)
      <4>1. CASE \E e \in 0 .. 2 : host.k + e = line.glitch /\ Ending(e)
        <5>1. PICK e \in 0 .. 2 : host.k + e = line.glitch /\ Ending(e)
          BY <4>1
        <5>2. e # 0
          BY <1>2, <3>1, <5>1
        <5>3. QED
          BY <5>1, <5>2 DEF Ending
      <4>2. CASE u_rx.state = "START" /\ host.k + u_rx.clk_cnt + 3 = line.glitch
        BY <1>2, <4>2
      <4>3. QED
        BY <4>1, <4>2 DEF InGlitch
    <3>4. QED
      BY <1>2, <3>2, <3>3, RxNow
  <2>3. QED
    BY <1>1, <1>2, <1>5, <2>1, <2>2 DEF Synced
<1>6. QED
  BY <1>4, <1>5, GlitchMoves

LEMMA Doubles ==
  ASSUME NEW d, NEW b
  PROVE  <<d>> \o <<b>> = <<d, b>> /\ Append(<<d>>, b) = <<d, b>>
<1>1. <<d>> \in Seq({d, b}) /\ <<b>> \in Seq({d, b}) /\ <<d, b>> \in Seq({d, b}) /\ b \in {d, b}
  OBVIOUS
<1>2. /\ Append(<<d>>, b) \in Seq({d, b}) /\ Len(Append(<<d>>, b)) = 2
      /\ Append(<<d>>, b)[1] = d /\ Append(<<d>>, b)[2] = b
  BY <1>1, AppendProperties
<1>3. Len(<<d, b>>) = 2 /\ <<d, b>>[1] = d /\ <<d, b>>[2] = b
  OBVIOUS
<1>4. Append(<<d>>, b) = <<d, b>>
  <2> DEFINE s == Append(<<d>>, b)
             q == <<d, b>>
  <2>1. s \in Seq({d, b}) /\ q \in Seq({d, b}) /\ Len(s) = 2 /\ Len(q) = 2
        /\ s[1] = q[1] /\ s[2] = q[2]
    BY <1>1, <1>2, <1>3
  <2> HIDE DEF s, q
  <2>2. \A i \in 1 .. Len(s) : s[i] = q[i]
    BY <2>1
  <2>3. s = q
    BY <2>1, <2>2, SeqEqual, Zenon
  <2>4. QED
    BY <2>3 DEF s, q
<1>5. Append(<<d>>, b) = <<d>> \o <<b>>
  BY <1>1, AppendIsConcat
<1>6. QED
  BY <1>4, <1>5

LEMMA Pairs ==
  ASSUME NEW d, NEW b
  PROVE  /\ Drop1(<<d>>) = <<>> /\ Drop1(<<d>> \o <<b>>) = <<b>> /\ Append(<<>>, b) = <<b>>
         /\ Append(<<d>>, b) = <<d>> \o <<b>> /\ <<>> \o <<b>> = <<b>> /\ Drop1(<<>>) = <<>>
<1>1. Drop1(<<d>>) = <<>> /\ Drop1(<<>>) = <<>>
  BY DEF Drop1
<1>2. <<d>> \o <<b>> = <<d, b>> /\ Append(<<d>>, b) = <<d, b>>
  BY Doubles
<1>3. Drop1(<<d, b>>) = <<b>>
  BY DEF Drop1
<1>4. Append(<<>>, b) = <<b>> /\ <<>> \o <<b>> = <<b>>
  OBVIOUS
<1>5. QED
  BY <1>1, <1>2, <1>3, <1>4

\* A byte is in hand from the last data bit on until it has been announced.
LEMMA LeftStep ==
  ASSUME Ticks, u_rx.state # "DATA", u_rx'.state # "DATA"
  PROVE  Left' = IF u_rx.valid THEN Drop1(Left) ELSE Left
<1>1. u_rx.valid => u_rx.state = "IDLE"
  BY Now DEF Ticks
<1>2. CASE u_rx.valid
  <2>1. Left' = <<>>
    BY <1>1, <1>2, RxNow DEF Left
  <2>2. QED
    BY <1>2, <2>1, Pairs DEF Left
<1>3. CASE ~u_rx.valid
  <2>1. u_rx.state \in {"STOP", "DONE"} => u_rx'.data = u_rx.data /\ (u_rx'.valid \/ u_rx'.state \in {"STOP", "DONE"})
    BY RxNow
  <2>2. u_rx.state \notin {"STOP", "DONE"} => ~u_rx'.valid /\ u_rx'.state \notin {"STOP", "DONE"}
    BY RxNow
  <2>3. QED
    BY <1>3, <2>1, <2>2 DEF Left
<1>4. QED
  BY <1>2, <1>3

LEMMA PhaseIdle ==
  ASSUME Ticks, Synced, host.pc = "idle", InIdle
  PROVE  Phase'
<1>1. EchoOK /\ line' = line /\ host.wait \in Nat /\ u_rx.clk_cnt \in Nat
      /\ CLKS_PER_BIT \in Nat /\ HALF \in Nat /\ HALF + 2 < CLKS_PER_BIT /\ line.glitch \in Nat
      /\ SUB \in Nat
  <2>1. EchoOK /\ line' = line /\ host.wait \in Nat /\ u_rx.clk_cnt \in 0 .. LAST /\ line \in Lines
        /\ line.glitch \in Nat
    BY Now DEF Ticks
  <2>2. QED
    BY <2>1, BitTime, BitsLong
<1>2. u_rx.state = "START" /\ rx_sync = 0 => u_rx.clk_cnt < HALF
  <2>1. SUFFICES ASSUME u_rx.state = "START", rx_sync = 0, ~(u_rx.clk_cnt < HALF) PROVE FALSE
    OBVIOUS
  <2>2. CLKS_PER_BIT <= host.wait + 1 /\ host.wait + u_rx.clk_cnt + 2 <= CLKS_PER_BIT + HALF
    BY <2>1 DEF Synced, InIdle
  <2>3. QED
    BY <1>1, <2>1, <2>2
<1>3. /\ u_rx'.state # "DATA" /\ u_rx'.state # "STOP"
  BY <1>1, <1>2, RxNow, BitTime DEF InIdle
<1>4. owed = Left /\ Left' = (IF u_rx.valid THEN Drop1(owed) ELSE owed)
  BY <1>3, LeftStep DEF InIdle
<1>5. CASE host'.pc = "idle" /\ ~Begun /\ host'.wait = (IF host.wait = 0 THEN 0 ELSE host.wait - 1)
  <2>1. owed' = Left'
    BY <1>4, <1>5, OwedIs
  <2>2. CASE u_rx.state = "IDLE" /\ rx_sync = 0 /\ u_rx'.state = "START" /\ u_rx'.clk_cnt = 0
    <3>1. CLKS_PER_BIT <= host.wait + 1 /\ host.wait + 1 <= CLKS_PER_BIT + HALF
      BY <1>5, <2>2 DEF Synced
    <3>2. CLKS_PER_BIT <= host'.wait + 0 + 2 /\ host'.wait + 0 + 2 <= CLKS_PER_BIT + HALF
      BY <1>1, <1>5, <3>1
    <3>3. QED
      BY <1>3, <1>5, <2>1, <2>2, <3>2 DEF Phase, InIdle
  <2>3. CASE u_rx.state = "START" /\ u_rx.clk_cnt < HALF /\ u_rx'.state = "START"
             /\ u_rx'.clk_cnt = u_rx.clk_cnt + 1
    <3>1. /\ CLKS_PER_BIT <= host.wait + u_rx.clk_cnt + 2
          /\ host.wait + u_rx.clk_cnt + 2 <= CLKS_PER_BIT + HALF
      BY <2>3 DEF InIdle
    <3>2. /\ CLKS_PER_BIT <= host'.wait + u_rx'.clk_cnt + 2
          /\ host'.wait + u_rx'.clk_cnt + 2 <= CLKS_PER_BIT + HALF
      BY <1>1, <1>5, <2>3, <3>1
    <3>3. QED
      BY <1>3, <1>5, <2>1, <2>3, <3>2 DEF Phase, InIdle
  <2>4. CASE u_rx'.state # "START"
    BY <1>3, <1>5, <2>1, <2>4 DEF Phase, InIdle
  <2>5. QED
    BY <2>2, <2>3, <2>4, RxNow
<1>6. CASE host.wait = 0
  <2>1. rx_sync # 0 /\ u_rx.state # "START"
    <3>1. u_rx.state = "START" => u_rx.clk_cnt <= HALF
      BY <1>1, Now
    <3>2. QED
      BY <1>1, <1>6, <3>1 DEF Synced, InIdle
  <2>2. u_rx'.state \in {"IDLE", "DONE"}
    <3>1. u_rx.state \in {"IDLE", "STOP", "DONE"} /\ (u_rx.state = "STOP" => u_rx.clk_cnt = LAST)
      BY <1>1, <2>1, Now DEF InIdle
    <3>2. QED
      BY <2>1, <3>1, RxNow, BitTime
  <2>3. CASE host'.pc = "send" /\ host'.k = 0 /\ host'.t < SUB /\ Begun
    <3>1. owed' = Append(Left', host'.byte)
      BY <1>4, <2>3, OwedIs
    <3>2. Append(Left', host'.byte) = Left' \o <<host'.byte>>
      BY Pairs DEF Left
    <3>3. Ending(0)'
      BY <2>2 DEF Ending
    <3>4. QED
      BY <2>3, <3>1, <3>2, <3>3 DEF Phase, SendEarly
  <2>4. CASE host'.pc = "glitch" /\ host'.k = line.glitch /\ ~Begun
    <3>1. owed' = Left'
      BY <1>4, <2>4, OwedIs
    <3>2. host'.k + 0 = line'.glitch
      BY <1>1, <2>4
    <3>3. Ending(0)'
      BY <2>2 DEF Ending
    <3>4. 0 \in 0 .. 2
      OBVIOUS
    <3>5. QED
      BY <2>4, <3>1, <3>2, <3>3, <3>4 DEF Phase, InGlitch
  <2>5. CASE host'.pc = "idle" /\ ~Begun /\ host'.wait = (IF host.wait = 0 THEN 0 ELSE host.wait - 1)
    BY <1>5, <2>5
  <2>6. QED
    BY <2>3, <2>4, <2>5, IdleMoves
<1>7. QED
  BY <1>5, <1>6, IdleMoves

LEMMA PhaseGlitch ==
  ASSUME Ticks, Synced, host.pc = "glitch", InGlitch
  PROVE  Phase'
<1>1. /\ EchoOK /\ line' = line /\ u_rx.clk_cnt \in Nat /\ host.k \in Nat /\ 1 <= host.k
      /\ CLKS_PER_BIT \in Nat /\ HALF \in Nat /\ line.glitch \in Nat /\ line.glitch <= HALF + 1
      /\ host'.k \in Nat /\ host'.wait \in Nat
  <2>1. EchoOK /\ line' = line /\ u_rx.clk_cnt \in 0 .. LAST /\ line \in Lines /\ 1 <= host.k
        /\ line.glitch \in Nat /\ line.glitch <= HALF + 1 /\ host.k \in Nat
    BY Now DEF Ticks
  <2>2. host'.k \in Nat /\ host'.wait \in Nat
    BY DEF Ticks, EchoOK, EchoTypes
  <2>3. QED
    BY <2>1, <2>2, BitTime
<1>2. rx_sync = IF host.k + 2 <= line.glitch THEN 0 ELSE 1
  BY DEF Synced
\* One clock later.
<1>3. \/ /\ u_rx'.state \in {"IDLE", "DONE"} /\ host.k = line.glitch
      \/ /\ u_rx'.state = "IDLE" /\ host.k + 1 = line.glitch
      \/ /\ u_rx'.state = "START" /\ u_rx'.clk_cnt = 0 /\ host.k + 2 = line.glitch
      \/ /\ u_rx'.state = "START" /\ host.k + u_rx'.clk_cnt + 2 = line.glitch /\ host.k + 2 < line.glitch
  <2>1. CASE \E e \in 0 .. 2 : host.k + e = line.glitch /\ Ending(e)
    <3>1. PICK e \in 0 .. 2 : host.k + e = line.glitch /\ Ending(e)
      BY <2>1
    <3>2. CASE e = 0
      <4>1. rx_sync = 1 /\ host.k = line.glitch
        BY <1>1, <1>2, <3>1, <3>2
      <4>2. u_rx'.state \in {"IDLE", "DONE"}
        BY <3>1, <4>1, RxNow, BitTime DEF Ending
      <4>3. QED
        BY <4>1, <4>2
    <3>3. CASE e = 1
      <4>1. rx_sync = 1
        BY <1>1, <1>2, <3>1, <3>3
      <4>2. u_rx'.state = "IDLE"
        BY <3>1, <3>3, <4>1, RxNow DEF Ending
      <4>3. QED
        BY <3>1, <3>3, <4>2
    <3>4. CASE e = 2
      <4>1. rx_sync = 0
        BY <1>1, <1>2, <3>1, <3>4
      <4>2. u_rx'.state = "START" /\ u_rx'.clk_cnt = 0
        BY <3>1, <3>4, <4>1, RxNow DEF Ending
      <4>3. QED
        BY <3>1, <3>4, <4>2
    <3>5. QED
      BY <3>1, <3>2, <3>3, <3>4
  <2>2. CASE host.k + 2 < line.glitch /\ u_rx.state = "START" /\ host.k + u_rx.clk_cnt + 3 = line.glitch
    <3>1. u_rx.clk_cnt < HALF
      BY <1>1, <2>2
    <3>2. u_rx'.state = "START" /\ u_rx'.clk_cnt = u_rx.clk_cnt + 1
      BY <1>1, <2>2, <3>1, RxNow
    <3>3. QED
      BY <1>1, <2>2, <3>2
  <2>3. QED
    BY <2>1, <2>2 DEF InGlitch
<1>4. ~Begun
  BY GlitchMoves
<1>5. owed' = Left'
  <2>1. u_rx.state # "DATA" /\ u_rx'.state # "DATA" /\ owed = Left
    BY <1>3 DEF InGlitch, Ending
  <2>2. QED
    BY <1>4, <2>1, LeftStep, OwedIs
<1>6. u_rx'.clk_cnt \in Nat
  <2>1. u_rx'.clk_cnt \in 0 .. LAST
    BY DEF Ticks, EchoOK, EchoTypes, RxRegs
  <2>2. QED
    BY <2>1, BitTime
<1>7. CASE host'.pc = "glitch" /\ host.k = host'.k + 1 /\ host'.k >= 1
  <2>1. CASE u_rx'.state \in {"IDLE", "DONE"} /\ host.k = line.glitch
    <3>1. host'.k + 1 = line'.glitch /\ 1 \in 0 .. 2 /\ Ending(1)'
      BY <1>1, <1>7, <2>1 DEF Ending
    <3>2. QED
      BY <1>5, <1>7, <3>1 DEF Phase, InGlitch
  <2>2. CASE u_rx'.state = "IDLE" /\ host.k + 1 = line.glitch
    <3>1. host'.k + 2 = line'.glitch /\ 2 \in 0 .. 2 /\ Ending(2)'
      BY <1>1, <1>7, <2>2 DEF Ending
    <3>2. QED
      BY <1>5, <1>7, <3>1 DEF Phase, InGlitch
  <2>3. CASE u_rx'.state = "START" /\ host.k + u_rx'.clk_cnt + 2 = line.glitch
    <3>1. host'.k + 2 < line'.glitch /\ host'.k + u_rx'.clk_cnt + 3 = line'.glitch
      BY <1>1, <1>6, <1>7, <2>3
    <3>2. QED
      BY <1>5, <1>7, <2>3, <3>1 DEF Phase, InGlitch
  <2>4. QED
    BY <1>1, <1>3, <2>1, <2>2, <2>3
<1>8. CASE host'.pc = "idle" /\ host'.wait = CLKS_PER_BIT
  <2>1. u_rx'.state = "START" => host.k + u_rx'.clk_cnt + 2 = line.glitch
    BY <1>1, <1>3
  <2>2. u_rx'.state = "START" => /\ CLKS_PER_BIT <= host'.wait + u_rx'.clk_cnt + 2
                                 /\ host'.wait + u_rx'.clk_cnt + 2 <= CLKS_PER_BIT + HALF
    BY <1>1, <1>6, <1>8, <2>1
  <2>3. u_rx'.state # "DATA" /\ u_rx'.state # "STOP"
    BY <1>3
  <2>4. QED
    BY <1>5, <1>8, <2>2, <2>3 DEF Phase, InIdle
<1>9. QED
  BY <1>7, <1>8, GlitchMoves

LEMMA Scale ==
  ASSUME NEW k \in Nat, NEW r \in Nat
  PROVE  k * r \in Nat /\ (k + 1) * r = k * r + r /\ (k # 0 => (k - 1) * r = k * r - r)
  OBVIOUS

LEMMA BitNat == \A n \in 0 .. 9 : n \in Nat
  OBVIOUS

LEMMA Behind ==
  ASSUME NEW a \in Nat, NEW b \in Nat, NEW r \in Nat, NEW s \in Nat, NEW t \in Nat, NEW x \in Nat,
         3 * s <= r, t < r, x = a + t, b + 2 * s <= x, x < b + r + 2 * s, s > 0
  PROVE  \E y \in Nat : /\ b <= y /\ y < b + r
                        /\ IF t >= 2 * s THEN a <= y /\ y < a + r ELSE y < a /\ a <= y + r
<1>1. x - 2 * s \in Nat
  OBVIOUS
<1>2. /\ b <= x - 2 * s /\ x - 2 * s < b + r
      /\ IF t >= 2 * s THEN a <= x - 2 * s /\ x - 2 * s < a + r ELSE x - 2 * s < a /\ a <= x - 2 * s + r
  OBVIOUS
<1>3. QED
  BY <1>1, <1>2

LEMMA WhichBit ==
  ASSUME NEW n \in Nat, NEW k \in Nat, NEW r \in Nat, NEW s \in Nat, NEW t \in Nat, NEW x \in Nat,
         3 * s <= r, t < r, x = k * r + t, n * r + 2 * s <= x, x < (n + 1) * r + 2 * s, s > 0
  PROVE  IF t >= 2 * s THEN k = n ELSE k # 0 /\ k - 1 = n
<1>1. /\ k * r \in Nat /\ n * r \in Nat /\ (n + 1) * r = n * r + r /\ (k + 1) * r = k * r + r
      /\ k # 0 => (k - 1) * r = k * r - r
  BY Scale
<1>2. PICK y \in Nat :
        /\ n * r <= y /\ y < n * r + r
        /\ IF t >= 2 * s THEN k * r <= y /\ y < k * r + r ELSE y < k * r /\ k * r <= y + r
  <2>1. x < n * r + r + 2 * s
    BY <1>1
  <2>2. QED
    BY <1>1, <2>1, Behind, SMTT(60)
<1>3. n * r <= y /\ y < (n + 1) * r
  BY <1>1, <1>2, Zenon
<1>4. CASE t >= 2 * s
  <2>1. k * r <= y /\ y < (k + 1) * r
    BY <1>1, <1>2, <1>4, Zenon
  <2>2. k = n
    BY <1>3, <2>1, OneBit, Zenon
  <2>3. QED
    BY <1>4, <2>2
<1>5. CASE ~(t >= 2 * s)
  <2>1. y < k * r /\ k * r <= y + r
    BY <1>2, <1>5, Zenon
  <2>2. k # 0
    <3>1. SUFFICES ASSUME k = 0 PROVE FALSE
      OBVIOUS
    <3>2. k * r = 0
      BY <3>1
    <3>3. y < 0
      BY <2>1, <3>2, Zenon
    <3>4. QED
      BY <3>3
  <2>3. k - 1 \in Nat /\ (k - 1) + 1 = k
    BY <2>2
  <2>4. (k - 1) * r <= y /\ y < ((k - 1) + 1) * r
    <3>1. (k - 1) * r = k * r - r /\ ((k - 1) + 1) * r = k * r
      BY <1>1, <2>2, <2>3, Zenon
    <3>2. \A m \in Nat : m <= y + r => m - r <= y
      OBVIOUS
    <3>3. k * r - r <= y
      BY <1>1, <2>1, <3>2, Zenon
    <3>4. QED
      BY <2>1, <3>1, <3>3, Zenon
  <2>5. k - 1 = n
    BY <1>3, <2>3, <2>4, OneBit, Zenon
  <2>6. QED
    BY <1>5, <2>2, <2>5
<1>6. QED
  BY <1>4, <1>5

\* Two clocks after bit n of the frame begins, and until two clocks after it ends, it is
\* what the receiver sees.
LEMMA BitNow ==
  ASSUME EchoOK, host.pc = "send", NEW n \in 0 .. 9,
         n * line.rate + 2 * SUB <= Since, Since < (n + 1) * line.rate + 2 * SUB
  PROVE  IF host.t >= 2 * SUB THEN host.k = n ELSE host.k # 0 /\ host.k - 1 = n
<1>1. /\ host.k \in Nat /\ host.t \in Nat /\ line.rate \in Nat /\ SUB \in Nat /\ SUB > 0
      /\ host.t < line.rate /\ 3 * SUB <= line.rate /\ Since \in Nat /\ n \in Nat
  BY Now, BitTime, Zenon, BitNat
<1>2. Since = host.k * line.rate + host.t
  BY DEF Since
<1> DEFINE k == host.k
           t == host.t
           r == line.rate
           s == SUB
           x == Since
<1>3. /\ k \in Nat /\ t \in Nat /\ r \in Nat /\ s \in Nat /\ x \in Nat /\ n \in Nat
      /\ 3 * s <= r /\ t < r /\ s > 0 /\ x = k * r + t
      /\ n * r + 2 * s <= x /\ x < (n + 1) * r + 2 * s
  BY <1>1, <1>2, Zenon
<1> HIDE DEF k, t, r, s, x
<1>5. IF t >= 2 * s THEN k = n ELSE k # 0 /\ k - 1 = n
  BY <1>3, WhichBit, SMTT(30)
<1>4. QED
  BY <1>5, Zenon DEF k, t, s

LEMMA SyncIs ==
  ASSUME EchoOK, Synced, host.pc = "send", NEW n \in 0 .. 9,
         n * line.rate + 2 * SUB <= Since, Since < (n + 1) * line.rate + 2 * SUB
  PROVE  rx_sync = FrameBit(host.byte, n)
<1>1. IF host.t >= 2 * SUB THEN host.k = n ELSE host.k # 0 /\ host.k - 1 = n
  BY BitNow, Zenon
<1>2. QED
  BY <1>1, Zenon DEF Synced

LEMMA PhaseEarly ==
  ASSUME Ticks, Synced, host.pc = "send", SendEarly
  PROVE  Phase'
<1>1. /\ EchoOK /\ line' = line /\ host.t \in Nat /\ 3 * SUB <= line.rate /\ SUB \in Nat /\ SUB > 0
      /\ line.rate \in Nat /\ host.k = 0 /\ host'.t \in Nat /\ rx_sync \in {0, 1}
  BY Now, BitTime DEF Ticks, EchoOK, EchoTypes, SendEarly
<1>2. FrameGoes
  <2>1. ~FrameOver /\ ~FrameNext
    BY <1>1 DEF FrameOver, FrameNext, FrameEnds
  <2>2. QED
    BY <2>1, SendMoves
<1>3. u_rx.state # "DATA" /\ u_rx.state # "START"
  BY DEF SendEarly, Ending
<1>4. u_rx'.state # "DATA"
  BY <1>3, RxNow
<1>5. owed' = Left' \o <<host'.byte>>
  <2>1. owed' = IF u_rx.valid THEN Drop1(owed) ELSE owed
    BY <1>2, OwedIs DEF FrameGoes
  <2>2. owed = Left \o <<host.byte>> /\ host'.byte = host.byte
    BY <1>2 DEF SendEarly, FrameGoes
  <2>3. Left' = IF u_rx.valid THEN Drop1(Left) ELSE Left
    BY <1>3, <1>4, LeftStep
  <2>4. CASE u_rx.valid
    <3>1. Left = <<u_rx.data>>
      BY <2>4 DEF Left
    <3>2. QED
      BY <2>1, <2>2, <2>3, <2>4, <3>1, Pairs
  <2>5. CASE ~u_rx.valid
    BY <2>1, <2>2, <2>3, <2>5
  <2>6. QED
    BY <2>4, <2>5
<1>6. rx_sync = IF host.t >= 2 * SUB THEN 0 ELSE 1
  BY <1>1 DEF Synced, FrameBit
<1>7. CASE host.t < 2 * SUB
  <2>1. host'.k = 0 /\ host'.t = host.t + SUB
    BY <1>1, <1>2, <1>7 DEF FrameGoes
  <2>2. rx_sync = 1
    BY <1>1, <1>6, <1>7
  <2>3. CASE host.t < SUB /\ Ending(0)
    <3>1. Ending(1)'
      BY <2>2, <2>3, RxNow, BitTime DEF Ending
    <3>2. SUB <= host'.t /\ host'.t < 2 * SUB
      BY <1>1, <2>1, <2>3
    <3>3. QED
      BY <1>2, <1>5, <2>1, <3>1, <3>2 DEF Phase, SendEarly, FrameGoes
  <2>4. CASE SUB <= host.t /\ Ending(1)
    <3>1. Ending(2)'
      BY <2>2, <2>4, RxNow DEF Ending
    <3>2. 2 * SUB <= host'.t /\ host'.t < 3 * SUB
      BY <1>1, <1>7, <2>1, <2>4
    <3>3. QED
      BY <1>2, <1>5, <2>1, <3>1, <3>2 DEF Phase, SendEarly, FrameGoes
  <2>5. QED
    BY <1>1, <1>7, <2>3, <2>4 DEF SendEarly
<1>8. CASE 2 * SUB <= host.t
  <2>1. u_rx.state = "IDLE" /\ rx_sync = 0 /\ host.t < 3 * SUB
    BY <1>1, <1>6, <1>8 DEF SendEarly, Ending
  <2>2. u_rx'.state = "START" /\ u_rx'.clk_cnt = 0 /\ ~u_rx'.valid
    BY <2>1, RxNow
  <2>3. Age(u_rx)' = 3
    BY <2>2 DEF Age
  <2>4. Since' = host.t + SUB
    <3>1. Since = host.t
      BY <1>1 DEF Since
    <3>2. QED
      BY <1>2, <3>1 DEF FrameGoes
  <2>5. Age(u_rx)' * SUB <= Since' /\ Since' < (Age(u_rx)' + 1) * SUB
    BY <1>1, <1>8, <2>1, <2>3, <2>4
  <2>6. owed' = <<host'.byte>>
    BY <1>5, <2>2, Pairs DEF Left
  <2>7. SendIn'
    BY <2>2, <2>5, <2>6 DEF SendIn
  <2>8. QED
    BY <1>2, <2>7 DEF Phase, FrameGoes
<1>9. QED
  BY <1>1, <1>7, <1>8

LEMMA PhasePast ==
  ASSUME Ticks, Synced, host.pc = "send", SendPast
  PROVE  Phase'
<1>1. /\ EchoOK /\ line' = line /\ host.t \in Nat /\ SUB \in Nat /\ SUB > 0 /\ host.k = 9
      /\ 2 * SUB <= host.t /\ u_rx.state = "IDLE" /\ ~u_rx.valid /\ owed = <<>>
      /\ host'.pc = "send" => host'.k \in 0 .. 9
  BY Now, BitTime DEF Ticks, SendPast, EchoOK, HostOK
<1>2. rx_sync = 1
  BY <1>1 DEF Synced, FrameBit
<1>3. u_rx'.state = "IDLE" /\ ~u_rx'.valid
  BY <1>1, <1>2, RxNow
<1>4. CASE FrameGoes
  <2>1. host'.k = 9 /\ host'.t = host.t + SUB /\ owed' = <<>>
    BY <1>1, <1>4, OwedIs DEF FrameGoes
  <2>2. QED
    BY <1>1, <1>3, <1>4, <2>1 DEF Phase, SendPast, FrameGoes
<1>5. CASE FrameOver
  <2>1. ~Begun /\ owed' = <<>>
    BY <1>1, <1>5, OwedIs DEF FrameOver, Begun
  <2>2. QED
    BY <1>3, <1>5, <2>1 DEF Phase, InIdle, Left, FrameOver
<1>6. CASE FrameNext
  <2>1. Begun
    BY <1>1, <1>6 DEF FrameNext, Begun
  <2>2. owed' = Append(<<>>, host'.byte)
    BY <1>1, <2>1, OwedIs
  <2>3. Left' = <<>> /\ Ending(0)'
    BY <1>3 DEF Left, Ending
  <2>4. owed' = Left' \o <<host'.byte>>
    BY <2>2, <2>3, Pairs
  <2>5. QED
    BY <1>6, <2>3, <2>4 DEF Phase, SendEarly, FrameNext
<1>7. QED
  BY <1>4, <1>5, <1>6, SendMoves

\* The middle of a bit by the receiver's count is two clocks or more after its beginning.
LEMMA SampledFrom ==
  ASSUME EchoOK, host.pc = "send", SendIn, NEW n \in 0 .. 9,
         HALF + 3 + n * CLKS_PER_BIT <= Age(u_rx)
  PROVE  Age(u_rx) \in Nat /\ n * line.rate + 2 * SUB <= Since
<1> DEFINE m == HALF + 1 + n * CLKS_PER_BIT
           a == Age(u_rx)
<1>1. /\ line \in Lines /\ SUB \in Nat /\ HALF \in Nat /\ CLKS_PER_BIT \in Nat /\ Since \in Nat
      /\ line.rate \in Nat /\ u_rx.clk_cnt \in 0 .. LAST /\ u_rx.bit_idx \in 0 .. 7 /\ LAST \in Nat
  BY Now, BitTime
<1>2. m \in Nat /\ a \in Nat
  <2>1. m \in Nat /\ u_rx.clk_cnt \in Nat /\ u_rx.bit_idx * CLKS_PER_BIT \in Nat /\ 8 * CLKS_PER_BIT \in Nat
        /\ 9 * CLKS_PER_BIT \in Nat
    BY <1>1
  <2>2. QED
    BY <1>1, <2>1 DEF Age
<1>3. n * line.rate <= m * SUB
  BY <1>1, Sampling
<1>4. m + 2 <= a
  BY <1>1, <1>2
<1>5. (m + 2) * SUB <= a * SUB
  BY <1>1, <1>2, <1>4, ScaleMono
<1>6. (m + 2) * SUB = m * SUB + 2 * SUB /\ m * SUB \in Nat
  BY <1>1, <1>2
<1>7. a * SUB <= Since
  BY DEF SendIn
<1>8. n * line.rate + 2 * SUB <= Since
  <2>1. n * line.rate \in Nat /\ a * SUB \in Nat /\ (m + 2) * SUB \in Nat
    BY <1>1, <1>2
  <2> HIDE DEF m, a
  <2>2. QED
    BY <1>1, <1>3, <1>5, <1>6, <1>7, <2>1
<1>9. QED
  BY <1>2, <1>8

LEMMA AgeNat == ASSUME EchoOK PROVE Age(u_rx) \in Nat
<1>1. /\ HALF \in Nat /\ CLKS_PER_BIT \in Nat /\ u_rx.clk_cnt \in 0 .. LAST /\ u_rx.bit_idx \in 0 .. 7
      /\ LAST \in Nat
  BY Now, BitTime
<1>2. /\ u_rx.clk_cnt \in Nat /\ u_rx.bit_idx * CLKS_PER_BIT \in Nat /\ 8 * CLKS_PER_BIT \in Nat
      /\ 9 * CLKS_PER_BIT \in Nat
  BY <1>1
<1>3. QED
  BY <1>1, <1>2 DEF Age

\* When a bit is sampled, it is that bit that is sampled.
LEMMA SampleAt ==
  ASSUME EchoOK, Synced, host.pc = "send", SendIn, NEW n \in 0 .. 9,
         HALF + 3 + n * CLKS_PER_BIT = Age(u_rx)
  PROVE  rx_sync = FrameBit(host.byte, n)
<1>1. /\ line \in Lines /\ SUB \in Nat /\ SUB > 0 /\ HALF \in Nat /\ CLKS_PER_BIT \in Nat /\ Since \in Nat
      /\ line.rate \in Nat /\ Age(u_rx) \in Nat
  BY Now, BitTime, AgeNat
<1>2. Age(u_rx) * SUB <= (n + 1) * line.rate
  BY <1>1, Sampling
<1>3. Since < Age(u_rx) * SUB + SUB
  <2>1. Since < (Age(u_rx) + 1) * SUB
    BY DEF SendIn
  <2>2. (Age(u_rx) + 1) * SUB = Age(u_rx) * SUB + SUB
    BY <1>1, Scale
  <2>3. QED
    BY <2>1, <2>2
<1>4. Since < (n + 1) * line.rate + 2 * SUB
  <2> DEFINE a == Age(u_rx) * SUB
             b == (n + 1) * line.rate
  <2>1. a \in Nat /\ b \in Nat /\ a <= b /\ Since < a + SUB
    <3>1. n + 1 \in Nat
      OBVIOUS
    <3>2. QED
      BY <1>1, <1>2, <1>3, <3>1, Scale
  <2> HIDE DEF a, b
  <2>2. Since < b + 2 * SUB
    BY <1>1, <2>1
  <2>3. QED
    BY <2>2 DEF b
<1>5. n * line.rate + 2 * SUB <= Since
  <2>1. HALF + 3 + n * CLKS_PER_BIT <= Age(u_rx)
    BY <1>1
  <2>2. QED
    BY <2>1, SampledFrom
<1>6. QED
  BY <1>4, <1>5, SyncIs

\* A frame's last bit, and only that, is on the line when its byte is announced.
LEMMA Announced ==
  ASSUME EchoOK, Synced, host.pc = "send", SendIn, u_rx.state = "IDLE"
  PROVE  host.k = 9 /\ 2 * SUB <= host.t /\ rx_sync = 1
<1>1. /\ SUB \in Nat /\ SUB > 0 /\ HALF \in Nat /\ CLKS_PER_BIT \in Nat /\ Since \in Nat
      /\ line.rate \in Nat /\ host.k \in 0 .. 9 /\ host.t \in Nat /\ host.t < line.rate
  BY Now, BitTime
<1>2. 9 * line.rate + 2 * SUB <= Since
  <2>1. Age(u_rx) = 5 + HALF + 9 * CLKS_PER_BIT
    BY DEF Age
  <2>2. HALF + 3 + 9 * CLKS_PER_BIT <= Age(u_rx) /\ 9 \in 0 .. 9
    BY <1>1, <2>1
  <2>3. QED
    BY <2>2, SampledFrom
<1>3. Since < (9 + 1) * line.rate + 2 * SUB
  <2>1. host.k * line.rate <= 9 * line.rate
    <3>1. host.k \in Nat /\ host.k <= 9
      BY <1>1
    <3>2. QED
      BY <1>1, <3>1, ScaleMono
  <2>2. host.k * line.rate \in Nat
    BY <1>1, BitNat, Scale
  <2>3. Since = host.k * line.rate + host.t
    BY DEF Since
  <2>4. QED
    BY <1>1, <2>1, <2>2, <2>3
<1>4. IF host.t >= 2 * SUB THEN host.k = 9 ELSE host.k # 0 /\ host.k - 1 = 9
  <2>1. 9 \in 0 .. 9
    OBVIOUS
  <2>2. QED
    BY <1>2, <1>3, <2>1, BitNow
<1>5. host.k = 9 /\ 2 * SUB <= host.t
  BY <1>1, <1>4
<1>6. rx_sync = 1
  BY <1>5 DEF Synced, FrameBit
<1>7. QED
  BY <1>5, <1>6

\* The receiver's count advances with the host's frame.
LEMMA AgeStep ==
  ASSUME Ticks, Synced, host.pc = "send", SendIn, u_rx.state # "IDLE"
  PROVE  Age(u_rx)' = Age(u_rx) + 1 /\ (u_rx'.state = "IDLE" => u_rx'.valid)
<1>1. /\ EchoOK /\ HALF \in Nat /\ CLKS_PER_BIT \in Nat /\ u_rx.clk_cnt \in Nat /\ u_rx.bit_idx \in 0 .. 7
      /\ LAST \in Nat /\ CLKS_PER_BIT = LAST + 1 /\ u_rx.bit_idx \in Nat
  <2>1. EchoOK /\ u_rx.clk_cnt \in 0 .. LAST /\ u_rx.bit_idx \in 0 .. 7
    BY Now DEF Ticks
  <2>2. QED
    BY <2>1, BitTime
<1>2. u_rx.state = "START" /\ u_rx.clk_cnt = HALF => rx_sync = 0
  <2>1. SUFFICES ASSUME u_rx.state = "START", u_rx.clk_cnt = HALF PROVE rx_sync = 0
    OBVIOUS
  <2>2. HALF + 3 + 0 * CLKS_PER_BIT = Age(u_rx) /\ 0 \in 0 .. 9
    BY <1>1, <2>1 DEF Age
  <2>3. rx_sync = FrameBit(host.byte, 0)
    BY <1>1, <2>2, SampleAt
  <2>4. QED
    BY <2>3 DEF FrameBit
<1>3. (u_rx.bit_idx + 1) * CLKS_PER_BIT = u_rx.bit_idx * CLKS_PER_BIT + CLKS_PER_BIT
      /\ u_rx.bit_idx * CLKS_PER_BIT \in Nat /\ 0 * CLKS_PER_BIT = 0
  BY <1>1, Scale
<1>4. CASE u_rx.state = "START"
  <2>1. Age(u_rx) = 3 + u_rx.clk_cnt
    BY <1>4 DEF Age
  <2>2. CASE u_rx.clk_cnt = HALF
    <3>1. u_rx'.state = "DATA" /\ u_rx'.clk_cnt = 0 /\ u_rx'.bit_idx = 0
      BY <1>1, <1>2, <1>4, <2>2, RxNow
    <3>2. Age(u_rx)' = 4 + HALF + 0 * CLKS_PER_BIT + 0
      BY <3>1 DEF Age
    <3>3. QED
      BY <1>1, <1>3, <2>1, <2>2, <3>1, <3>2
  <2>3. CASE u_rx.clk_cnt # HALF
    <3>1. u_rx'.state = "START" /\ u_rx'.clk_cnt = u_rx.clk_cnt + 1
      BY <1>4, <2>3, RxNow
    <3>2. QED
      BY <1>1, <2>1, <3>1 DEF Age
  <2>4. QED
    BY <2>2, <2>3
<1>5. CASE u_rx.state = "DATA"
  <2> DEFINE p == u_rx.bit_idx * CLKS_PER_BIT
  <2>1. Age(u_rx) = 4 + HALF + p + u_rx.clk_cnt /\ p \in Nat
    BY <1>3, <1>5 DEF Age
  <2>2. CASE u_rx.clk_cnt < LAST
    <3>1. u_rx'.state = "DATA" /\ u_rx'.clk_cnt = u_rx.clk_cnt + 1 /\ u_rx'.bit_idx = u_rx.bit_idx
      BY <1>1, <1>5, <2>2, RxNow
    <3>2. Age(u_rx)' = 4 + HALF + p + (u_rx.clk_cnt + 1)
      BY <3>1 DEF Age
    <3> HIDE DEF p
    <3>3. QED
      BY <1>1, <2>1, <3>1, <3>2
  <2>3. CASE u_rx.clk_cnt = LAST /\ u_rx.bit_idx < 7
    <3>1. u_rx'.state = "DATA" /\ u_rx'.clk_cnt = 0 /\ u_rx'.bit_idx = u_rx.bit_idx + 1
      BY <1>1, <1>5, <2>3, RxNow
    <3>2. Age(u_rx)' = 4 + HALF + (u_rx.bit_idx + 1) * CLKS_PER_BIT + 0
      BY <3>1 DEF Age
    <3>3. Age(u_rx)' = 4 + HALF + (p + CLKS_PER_BIT) + 0
      BY <1>3, <3>2
    <3> HIDE DEF p
    <3>4. QED
      BY <1>1, <2>1, <2>3, <3>1, <3>3
  <2>4. CASE u_rx.clk_cnt = LAST /\ u_rx.bit_idx = 7
    <3>1. u_rx'.state = "STOP" /\ u_rx'.clk_cnt = 0
      BY <1>1, <1>5, <2>4, RxNow
    <3>2. Age(u_rx)' = 4 + HALF + 8 * CLKS_PER_BIT + 0 /\ p = 7 * CLKS_PER_BIT
      BY <2>4, <3>1 DEF Age
    <3> HIDE DEF p
    <3>3. QED
      BY <1>1, <2>1, <2>4, <3>1, <3>2
  <2>5. QED
    BY <1>1, <2>2, <2>3, <2>4, <1>5, RxNow
<1>6. CASE u_rx.state = "STOP"
  BY <1>1, <1>6, RxNow DEF Age
<1>7. CASE u_rx.state = "DONE"
  BY <1>1, <1>7, RxNow DEF Age
<1>8. QED
  BY <1>1, <1>4, <1>5, <1>6, <1>7, Now

\* When the host's frame is over the receiver is in the middle of its stop bit, or further.
LEMMA FrameAge ==
  ASSUME EchoOK, host.pc = "send", SendIn, host.k = 9, line.rate <= host.t + SUB
  PROVE  u_rx.state \in {"STOP", "DONE", "IDLE"}
         /\ (u_rx.state = "STOP" => LAST <= u_rx.clk_cnt + 1)
<1>1. /\ line \in Lines /\ SUB \in Nat /\ SUB > 0 /\ HALF \in Nat /\ CLKS_PER_BIT \in Nat /\ Since \in Nat
      /\ LAST \in Nat /\ CLKS_PER_BIT = LAST + 1 /\ line.rate \in Nat /\ host.t \in Nat /\ Age(u_rx) \in Nat
      /\ 4 <= CLKS_PER_BIT
  <2>1. line \in Lines
    BY Now
  <2>2. QED
    BY <2>1, Now, BitTime, AgeNat, BitsLong
<1> DEFINE m == HALF + 3 + 9 * CLKS_PER_BIT
           a == Age(u_rx)
<1>2. m * SUB <= Since + SUB
  <2>1. m * SUB <= (9 + 1) * line.rate
    <3>1. 9 \in 0 .. 9
      OBVIOUS
    <3>2. QED
      BY <1>1, <3>1, Sampling
  <2>2. Since = 9 * line.rate + host.t
    BY DEF Since
  <2>3. m * SUB \in Nat
    BY <1>1, Scale
  <2> HIDE DEF m
  <2>4. QED
    BY <1>1, <2>1, <2>2, <2>3
<1>3. m < a + 2
  <2>1. Since < (a + 1) * SUB /\ (a + 1) * SUB = a * SUB + SUB /\ a * SUB \in Nat
        /\ (a + 2) * SUB = a * SUB + 2 * SUB /\ m * SUB \in Nat
    BY <1>1 DEF SendIn
  <2> DEFINE p == m * SUB
             q == a * SUB
  <2>2. p \in Nat /\ q \in Nat /\ p <= Since + SUB /\ Since < q + SUB /\ (a + 2) * SUB = q + 2 * SUB
    BY <1>1, <1>2, <2>1
  <2> HIDE DEF p, q
  <2>3. p < q + 2 * SUB
    BY <1>1, <2>2
  <2>4. m * SUB < (a + 2) * SUB
    BY <2>2, <2>3 DEF p
  <2>5. m \in Nat /\ a + 2 \in Nat
    BY <1>1
  <2>6. QED
    BY <1>1, <2>4, <2>5, ScaleCancel
<1>4. u_rx.clk_cnt \in Nat /\ u_rx.clk_cnt <= LAST /\ u_rx.bit_idx \in Nat /\ u_rx.bit_idx <= 7
      /\ u_rx.state \in {"IDLE", "START", "DATA", "STOP", "DONE"}
  <2>1. u_rx.clk_cnt \in 0 .. LAST /\ u_rx.bit_idx \in 0 .. 7
        /\ u_rx.state \in {"IDLE", "START", "DATA", "STOP", "DONE"}
    BY Now
  <2>2. QED
    BY <1>1, <2>1
<1>5. u_rx.state # "START"
  <2>1. u_rx.state = "START" => a = 3 + u_rx.clk_cnt
    BY DEF Age
  <2>2. QED
    BY <1>1, <1>3, <1>4, <2>1
<1>6. u_rx.state # "DATA"
  <2>1. u_rx.state = "DATA" => a = 4 + HALF + u_rx.bit_idx * CLKS_PER_BIT + u_rx.clk_cnt
    BY DEF Age
  <2>2. u_rx.bit_idx * CLKS_PER_BIT <= 7 * CLKS_PER_BIT
    BY <1>1, <1>4, ScaleMono
  <2>3. u_rx.bit_idx * CLKS_PER_BIT \in Nat
    BY <1>1, <1>4, Scale
  <2>4. QED
    BY <1>1, <1>3, <1>4, <2>1, <2>2, <2>3
<1>7. u_rx.state = "STOP" => LAST <= u_rx.clk_cnt + 1
  <2>1. u_rx.state = "STOP" => a = 4 + HALF + 8 * CLKS_PER_BIT + u_rx.clk_cnt
    BY DEF Age
  <2>2. QED
    BY <1>1, <1>3, <1>4, <2>1
<1>8. QED
  BY <1>4, <1>5, <1>6, <1>7

\* The bits received so far are the host's.
LEMMA DataStep ==
  ASSUME Ticks, Synced, host.pc = "send", SendIn, FrameGoes
  PROVE  /\ u_rx'.state = "DATA" => \A i \in 0 .. 7 : i < u_rx'.bit_idx => u_rx'.data[i] = host'.byte[i]
         /\ u_rx'.state \in {"STOP", "DONE"} \/ u_rx'.valid => u_rx'.data = host'.byte
<1>1. EchoOK /\ EchoOK' /\ host'.byte = host.byte
  BY DEF Ticks, FrameGoes
<1>2. /\ u_rx.bit_idx \in 0 .. 7 /\ u_rx.data \in Byte8 /\ host.byte \in Byte8 /\ LAST \in Nat /\ HALF \in Nat
      /\ CLKS_PER_BIT \in Nat /\ CLKS_PER_BIT = LAST + 1
  BY <1>1, Now, BitTime
<1>3. CASE u_rx.state = "DATA" /\ u_rx.clk_cnt = LAST
  <2>1. PICK i \in 0 .. 7 : i = u_rx.bit_idx
    BY <1>2
  <2>2. rx_sync = host.byte[i]
    <3>1. i + 1 \in 0 .. 9 /\ i + 1 # 0 /\ i + 1 # 9 /\ (i + 1) - 1 = i /\ i \in Nat
      BY <2>1
    <3>2. (i + 1) * CLKS_PER_BIT = i * CLKS_PER_BIT + CLKS_PER_BIT /\ i * CLKS_PER_BIT \in Nat
      BY <1>2, <3>1, Scale
    <3>3. Age(u_rx) = 4 + HALF + i * CLKS_PER_BIT + LAST
      BY <1>3, <2>1 DEF Age
    <3>4. HALF + 3 + (i + 1) * CLKS_PER_BIT = Age(u_rx)
      <4> DEFINE p == i * CLKS_PER_BIT
      <4>1. Age(u_rx) = 4 + HALF + p + LAST /\ (i + 1) * CLKS_PER_BIT = p + CLKS_PER_BIT /\ p \in Nat
        BY <3>2, <3>3
      <4> HIDE DEF p
      <4>2. QED
        BY <1>2, <4>1
    <3>5. rx_sync = FrameBit(host.byte, i + 1)
      BY <1>1, <3>1, <3>4, SampleAt
    <3>6. QED
      BY <3>1, <3>5 DEF FrameBit
  <2>3. u_rx'.data = [u_rx.data EXCEPT ![i] = host.byte[i]]
    BY <1>2, <1>3, <2>1, <2>2, RxNow
  <2>4. \A j \in 0 .. 7 : j < i + 1 => u_rx'.data[j] = host.byte[j]
    <3>1. \A j \in 0 .. 7 : j < i => u_rx.data[j] = host.byte[j]
      BY <1>3, <2>1 DEF SendIn
    <3>2. QED
      BY <1>2, <2>3, <3>1 DEF Byte8
  <2>5. CASE i < 7
    <3>1. u_rx'.state = "DATA" /\ u_rx'.bit_idx = i + 1 /\ ~u_rx'.valid
      BY <1>2, <1>3, <2>1, <2>5, RxNow
    <3>2. QED
      BY <1>1, <2>4, <3>1
  <2>6. CASE i = 7
    <3>1. u_rx'.state = "STOP"
      BY <1>2, <1>3, <2>1, <2>6, RxNow
    <3>2. \A j \in 0 .. 7 : u_rx'.data[j] = host.byte[j]
      BY <2>4, <2>6
    <3>3. u_rx'.data \in Byte8
      BY <1>1 DEF EchoOK, EchoTypes, RxRegs, Byte8
    <3>4. u_rx'.data = host.byte
      BY <1>2, <3>2, <3>3 DEF Byte8
    <3>5. QED
      BY <1>1, <3>1, <3>4
  <2>7. QED
    BY <2>5, <2>6
<1>4. CASE u_rx.state = "DATA" /\ u_rx.clk_cnt < LAST
  <2>1. u_rx'.state = "DATA" /\ u_rx'.bit_idx = u_rx.bit_idx /\ u_rx'.data = u_rx.data /\ ~u_rx'.valid
    BY <1>2, <1>4, RxNow
  <2>2. QED
    BY <1>1, <1>4, <2>1 DEF SendIn
<1>5. CASE u_rx.state \in {"STOP", "DONE"}
  <2>1. u_rx'.state # "DATA" /\ u_rx'.data = u_rx.data
    BY <1>5, RxNow
  <2>2. QED
    BY <1>1, <1>5, <2>1 DEF SendIn
<1>6. CASE u_rx.state \in {"IDLE", "START"}
  <2>1. /\ u_rx'.state = "DATA" => u_rx'.bit_idx = 0
        /\ u_rx'.state \notin {"STOP", "DONE"} /\ ~u_rx'.valid
    BY <1>6, RxNow
  <2>2. QED
    BY <2>1
<1>7. QED
  BY <1>1, <1>3, <1>4, <1>5, <1>6, RxNow, Now

LEMMA PhaseIn ==
  ASSUME Ticks, Synced, host.pc = "send", SendIn
  PROVE  Phase'
<1>1. /\ EchoOK /\ EchoOK' /\ line' = line /\ SUB \in Nat /\ SUB > 0 /\ host.t \in Nat /\ Since \in Nat /\ Age(u_rx) \in Nat
      /\ LAST \in Nat /\ host.byte \in Byte8
  BY Now, BitTime, AgeNat DEF Ticks
<1>2. owed = <<host.byte>> /\ (u_rx.valid => u_rx.state = "IDLE") /\ (u_rx.state = "IDLE" => u_rx.valid)
  BY <1>1, Now DEF SendIn
<1>3. CASE FrameGoes /\ u_rx.state = "IDLE"
  <2>1. host.k = 9 /\ 2 * SUB <= host.t /\ rx_sync = 1
    BY <1>1, <1>3, Announced
  <2>2. u_rx'.state = "IDLE" /\ ~u_rx'.valid
    BY <1>3, <2>1, RxNow
  <2>3. host'.k = 9 /\ host'.t = host.t + SUB
    <3>1. host'.pc = "send" /\ host'.k \in 0 .. 9
      BY <1>1, <1>3 DEF FrameGoes, EchoOK, HostOK
    <3>2. host'.k # 10
      BY <3>1
    <3>3. QED
      BY <1>3, <2>1, <3>2 DEF FrameGoes
  <2>4. owed' = <<>>
    BY <1>2, <1>3, OwedIs, Pairs DEF FrameGoes
  <2>5. 2 * SUB <= host'.t
    BY <1>1, <2>1, <2>3
  <2>6. SendPast'
    BY <2>2, <2>3, <2>4, <2>5 DEF SendPast
  <2>7. QED
    BY <1>3, <2>6 DEF Phase, FrameGoes
<1>4. CASE FrameGoes /\ u_rx.state # "IDLE"
  <2>1. Age(u_rx)' = Age(u_rx) + 1 /\ (u_rx'.state = "IDLE" => u_rx'.valid)
    BY <1>4, AgeStep
  <2>2. Since' = Since + SUB
    BY <1>4 DEF FrameGoes
  <2>3. Age(u_rx)' * SUB <= Since' /\ Since' < (Age(u_rx)' + 1) * SUB
    <3> DEFINE q == Age(u_rx) * SUB
    <3>1. q \in Nat /\ (Age(u_rx) + 1) * SUB = q + SUB /\ (Age(u_rx) + 1 + 1) * SUB = q + SUB + SUB
      BY <1>1
    <3>2. q <= Since /\ Since < q + SUB
      BY <3>1 DEF SendIn
    <3>3. Age(u_rx)' * SUB = q + SUB /\ (Age(u_rx)' + 1) * SUB = q + SUB + SUB
      BY <2>1, <3>1
    <3> HIDE DEF q
    <3>4. q + SUB <= Since' /\ Since' < q + SUB + SUB
      BY <1>1, <2>2, <3>1, <3>2
    <3>5. QED
      BY <3>3, <3>4
  <2>4. owed' = <<host'.byte>>
    BY <1>2, <1>4, OwedIs DEF FrameGoes
  <2>5. SendIn'
    <3>1. /\ u_rx'.state = "DATA" => \A i \in 0 .. 7 : i < u_rx'.bit_idx => u_rx'.data[i] = host'.byte[i]
          /\ u_rx'.state \in {"STOP", "DONE"} \/ u_rx'.valid => u_rx'.data = host'.byte
      BY <1>4, DataStep
    <3>2. QED
      BY <2>1, <2>3, <2>4, <3>1 DEF SendIn
  <2>6. QED
    BY <1>4, <2>5 DEF Phase, FrameGoes
<1>5. CASE FrameOver \/ FrameNext
  <2>1. host.k = 9 /\ line.rate <= host.t + SUB /\ 2 * SUB <= host.t
    BY <1>5 DEF FrameOver, FrameNext, FrameEnds
  <2>2. u_rx.state \in {"STOP", "DONE", "IDLE"} /\ (u_rx.state = "STOP" => LAST <= u_rx.clk_cnt + 1)
    BY <1>1, <2>1, FrameAge
  <2>3. rx_sync = 1
    BY <2>1 DEF Synced, FrameBit
  <2>4. u_rx'.state \in {"STOP", "DONE", "IDLE"} /\ (u_rx'.state = "STOP" => u_rx'.clk_cnt = LAST)
    <3>1. CASE u_rx.state = "STOP" /\ u_rx.clk_cnt < LAST
      <4>1. u_rx.clk_cnt \in 0 .. LAST
        BY <1>1, Now
      <4>2. u_rx.clk_cnt + 1 = LAST
        BY <1>1, <2>2, <3>1, <4>1
      <4>3. QED
        BY <3>1, <4>2, RxNow
    <3>2. CASE ~(u_rx.state = "STOP" /\ u_rx.clk_cnt < LAST)
      BY <2>2, <2>3, <3>2, RxNow
    <3>3. QED
      BY <3>1, <3>2
  <2>5. owed = Left
    BY <1>2, <2>2 DEF Left, SendIn
  <2>6. Left' = IF u_rx.valid THEN Drop1(owed) ELSE owed
    BY <2>2, <2>4, <2>5, LeftStep
  <2>7. CASE FrameOver
    <3>1. ~Begun
      BY <2>7 DEF FrameOver, Begun
    <3>2. owed' = Left'
      BY <2>6, <3>1, OwedIs
    <3>3. QED
      BY <2>4, <2>7, <3>2 DEF Phase, InIdle, FrameOver
  <2>8. CASE FrameNext
    <3>1. Begun
      BY <2>1, <2>8 DEF FrameNext, Begun
    <3>2. owed' = Append(Left', host'.byte)
      BY <2>6, <3>1, OwedIs
    <3>3. Append(Left', host'.byte) = Left' \o <<host'.byte>>
      BY Pairs DEF Left
    <3>4. Ending(0)'
      BY <2>4 DEF Ending
    <3>5. QED
      BY <2>8, <3>2, <3>3, <3>4 DEF Phase, SendEarly, FrameNext
  <2>9. QED
    BY <1>5, <2>7, <2>8
<1>6. QED
  BY <1>3, <1>4, <1>5, SendMoves

LEMMA RestIsFine ==
  EchoOK /\ AtRest /\ owed = <<>> => Synced /\ Phase
<1> SUFFICES ASSUME EchoOK, AtRest, owed = <<>> PROVE Synced /\ Phase
  OBVIOUS
<1>1. host.pc = "idle" /\ rx_d0 = 1 /\ rx_sync = 1 /\ u_rx.state = "IDLE" /\ ~u_rx.valid
  BY DEF AtRest
<1>2. Synced
  BY <1>1 DEF Synced
<1>3. Phase
  BY <1>1 DEF Phase, InIdle, Left
<1>4. QED
  BY <1>2, <1>3

LEMMA RxInvStep ==
  ASSUME EchoOK, EchoOK', RxInv, [EchoNext]_echoVars
  PROVE  RxInv'
<1>1. CASE UNCHANGED echoVars
  BY <1>1 DEF echoVars, RxInv, Synced, Phase, AtRest, SendEarly, SendIn, SendPast, InGlitch, InIdle, Left,
              Ending, Since, Age, FrameBit
<1>2. ASSUME NEW rst \in BOOLEAN, Clock(rst) PROVE RxInv'
  <2>1. ~calm' => owed' = <<>> /\ due' = <<>>
    BY <1>2 DEF Clock, History
  <2>2. CASE ~calm'
    <3>1. ASSUME AtRest' PROVE Synced' /\ Phase'
      <4>1. (EchoOK /\ AtRest /\ owed = <<>> => Synced /\ Phase)'
        BY RestIsFine, PTL
      <4>2. QED
        BY <2>1, <2>2, <3>1, <4>1
    <3>2. QED
      BY <2>1, <2>2, <3>1 DEF RxInv
  <2>3. CASE calm'
    <3>1. Ticks /\ (calm \/ AtRest)
      BY <1>2, <2>3 DEF Clock, History, Ticks
    <3>2. Synced /\ Phase
      BY <3>1 DEF RxInv
    <3>3. /\ host.pc = "idle" => InIdle
          /\ host.pc = "glitch" => InGlitch
          /\ host.pc = "send" => SendEarly \/ SendIn \/ SendPast
      BY <3>2 DEF Phase
    <3>4. host.pc \in {"idle", "send", "glitch"}
      BY Now
    <3>5. Synced'
      BY <3>1, <3>2, <3>3, <3>4, SyncedIdle, SyncedGlitch, SyncedSend
    <3>6. Synced' /\ Phase'
      BY <3>1, <3>2, <3>3, <3>4, <3>5, PhaseIdle, PhaseGlitch, PhaseEarly, PhaseIn, PhasePast
    <3>7. QED
      BY <2>1, <3>6 DEF RxInv
  <2>4. QED
    BY <2>2, <2>3
<1>3. QED
  BY <1>1, <1>2 DEF EchoNext

LEMMA RxInvInit == EchoInit => EchoOK /\ RxInv
<1> SUFFICES ASSUME EchoInit PROVE EchoOK /\ RxInv
  OBVIOUS
<1>1. EchoOK
  BY EchoTypesInit DEF EchoOK
<1>2. Synced /\ Phase
  BY DEF EchoInit, Synced, Phase, InIdle, Left
<1>3. calm
  BY DEF EchoInit
<1>4. QED
  BY <1>1, <1>2, <1>3 DEF RxInv

LEMMA EchoOKStep ==
  ASSUME EchoOK, [EchoNext]_echoVars
  PROVE  EchoOK'
  BY EchoTypesStep DEF EchoOK

LEMMA DeliversNow ==
  ASSUME EchoOK, RxInv
  PROVE  Delivers
<1>1. BytesIntact
  <2>1. SUFFICES ASSUME calm, u_rx.valid PROVE owed # <<>> /\ u_rx.data = owed[1]
    BY DEF BytesIntact
  <2>2. Phase /\ u_rx.state = "IDLE" /\ host.pc \in {"idle", "send", "glitch"}
    BY <2>1, Now DEF RxInv
  <2>3. Left = <<u_rx.data>>
    BY <2>1 DEF Left
  <2>4. ASSUME NEW d, NEW b PROVE (<<d>> \o <<b>>) # <<>> /\ (<<d>> \o <<b>>)[1] = d
    <3>1. <<d>> \o <<b>> = <<d, b>>
      BY Doubles
    <3>2. QED
      BY <3>1
  <2>5. owed = Left \/ owed = Left \o <<host.byte>> \/ (owed = <<host.byte>> /\ u_rx.data = host.byte)
    BY <2>1, <2>2 DEF Phase, SendEarly, SendIn, SendPast, InGlitch, InIdle
  <2>6. QED
    BY <2>3, <2>4, <2>5
<1>2. NoneSwallowed
  <2>1. SUFFICES ASSUME calm
                 PROVE  /\ host.pc = "send" /\ host.k > 0 => Len(owed) <= 1
                        /\ AtRest => owed = <<>>
    BY DEF NoneSwallowed
  <2>2. Phase
    BY <2>1 DEF RxInv
  <2>3. ASSUME host.pc = "send", host.k > 0 PROVE Len(owed) <= 1
    <3>1. owed = <<>> \/ owed = <<host.byte>>
      BY <2>2, <2>3 DEF Phase, SendEarly, SendIn, SendPast
    <3>2. Len(<<>>) <= 1 /\ Len(<<host.byte>>) <= 1
      OBVIOUS
    <3>3. QED
      BY <3>1, <3>2
  <2>4. AtRest => owed = <<>>
    BY <2>2 DEF Phase, InIdle, AtRest, Left
  <2>5. QED
    BY <2>3, <2>4
<1>3. QED
  BY <1>1, <1>2 DEF Delivers

\* Whatever the hosts send and however closely: uart_rx announces each byte once, as it was
\* sent and in its turn, for every bit length and every host whose bits TimingOK admits.
THEOREM DeliversTheorem == EchoSpec => []Delivers
<1>1. EchoInit => EchoOK /\ RxInv
  BY RxInvInit
<1>2. EchoOK /\ RxInv /\ [EchoNext]_echoVars => (EchoOK /\ RxInv)'
  BY EchoOKStep, RxInvStep
<1>3. EchoOK /\ RxInv => Delivers
  BY DeliversNow
<1>4. QED
  BY <1>1, <1>2, <1>3, PTL DEF EchoSpec
-----------------------------------------------------------------------------
(* The transmitter: where it is in a byte, and that it is done in time.     *)

\* Clocks uart_tx needs for a byte, and one more.
Free == 2 + 10 * CLKS_PER_BIT

\* Clocks since uart_tx's byte was taken, Free when it waits for one.
Lap == IF tx_start THEN 1
       ELSE CASE u_tx.state = "START" -> 2 + u_tx.clk_cnt
              [] u_tx.state = "DATA"  -> 2 + CLKS_PER_BIT + u_tx.bit_idx * CLKS_PER_BIT + u_tx.clk_cnt
              [] u_tx.state = "STOP"  -> 2 + 9 * CLKS_PER_BIT + u_tx.clk_cnt
              [] OTHER                -> Free

LEMMA TxNow ==
  ASSUME EchoOK
  PROVE  /\ u_tx.state \in {"IDLE", "START", "DATA", "STOP"} /\ u_tx.clk_cnt \in Nat /\ u_tx.clk_cnt <= LAST
         /\ u_tx.bit_idx \in Nat /\ u_tx.bit_idx <= 7 /\ u_tx.shreg \in Byte8 /\ u_tx.tx \in {0, 1}
         /\ tx_data \in Byte8 /\ u_rx.data \in Byte8
         /\ term.k \in 0 .. 11 /\ term.t \in Nat /\ term.bits \in Byte8
         /\ (u_tx.busy <=> u_tx.state # "IDLE") /\ (tx_start => u_tx.state = "IDLE" /\ ~u_rx.valid)
         /\ (u_tx.state # "DATA" => u_tx.bit_idx = 0) /\ (u_tx.state = "IDLE" => u_tx.clk_cnt = 0)
<1>1. u_tx \in TxRegs /\ LAST \in Nat
  BY BitTime DEF EchoOK, EchoTypes
<1>2. u_tx.clk_cnt \in 0 .. LAST /\ u_tx.bit_idx \in 0 .. 7 /\ u_tx.state \in {"IDLE", "START", "DATA", "STOP"}
      /\ u_tx.shreg \in Byte8 /\ u_tx.tx \in {0, 1}
  BY <1>1 DEF TxRegs, Byte8, Bit
<1>3. /\ tx_data \in Byte8 /\ u_rx.data \in Byte8
      /\ term.k \in 0 .. 11 /\ term.t \in Nat /\ term.bits \in Byte8
  BY DEF EchoOK, EchoTypes, RxRegs, Byte8
<1>4. /\ (u_tx.busy <=> u_tx.state # "IDLE") /\ (tx_start => u_tx.state = "IDLE" /\ ~u_rx.valid)
      /\ (u_tx.state # "DATA" => u_tx.bit_idx = 0) /\ (u_tx.state = "IDLE" => u_tx.clk_cnt = 0)
  BY DEF EchoOK, Shapes
<1>5. QED
  BY <1>1, <1>2, <1>3, <1>4

LEMMA LapRange ==
  ASSUME EchoOK
  PROVE  /\ Free \in Nat /\ Lap \in Nat /\ 1 <= Lap /\ Lap <= Free
         /\ Lap = Free <=> u_tx.state = "IDLE" /\ ~tx_start
<1>1. /\ CLKS_PER_BIT \in Nat /\ LAST \in Nat /\ CLKS_PER_BIT = LAST + 1 /\ Free = 2 + 10 * CLKS_PER_BIT
      /\ u_tx.clk_cnt \in Nat /\ u_tx.clk_cnt <= LAST
      /\ u_tx.state \in {"IDLE", "START", "DATA", "STOP"} /\ (tx_start => u_tx.state = "IDLE")
  BY BitTime, TxNow DEF Free
<1> DEFINE p == u_tx.bit_idx * CLKS_PER_BIT
<1>2. p \in Nat /\ p <= 7 * CLKS_PER_BIT
  BY <1>1, TxNow, Scale, ScaleMono
<1>3. Lap = IF tx_start THEN 1
            ELSE IF u_tx.state = "START" THEN 2 + u_tx.clk_cnt
            ELSE IF u_tx.state = "DATA" THEN 2 + CLKS_PER_BIT + p + u_tx.clk_cnt
            ELSE IF u_tx.state = "STOP" THEN 2 + 9 * CLKS_PER_BIT + u_tx.clk_cnt
            ELSE Free
  BY DEF Lap
<1> HIDE DEF p
<1>4. QED
  BY <1>1, <1>2, <1>3

\* uart_tx goes on clock by clock, and takes a byte only when it has none.
LEMMA LapStep ==
  ASSUME EchoOK, Echo, uart_tx
  PROVE  Lap' = IF Takes THEN 1 ELSE IF Lap < Free THEN Lap + 1 ELSE Free
<1>1. /\ CLKS_PER_BIT \in Nat /\ LAST \in Nat /\ CLKS_PER_BIT = LAST + 1 /\ Free = 2 + 10 * CLKS_PER_BIT
      /\ 4 <= CLKS_PER_BIT
      /\ u_tx.clk_cnt \in Nat /\ u_tx.clk_cnt <= LAST /\ u_tx.bit_idx \in Nat /\ u_tx.bit_idx <= 7
      /\ Lap \in Nat /\ Lap <= Free
  <2>1. line \in Lines
    BY Now
  <2>2. QED
    BY <2>1, BitTime, BitsLong, TxNow, LapRange DEF Free
<1>2. tx_start' = Takes
  BY DEF Echo
<1>3. EchoTypes /\ Shapes
  BY DEF EchoOK
<1>4. CASE Takes
  BY <1>2, <1>4 DEF Lap
<1>5. CASE ~Takes /\ tx_start
  <2>1. u_tx'.state = "START" /\ u_tx'.clk_cnt = 0
    BY <1>3, <1>5, TxStep, TxNow DEF TxIs
  <2>2. Lap' = 2 /\ Lap = 1
    BY <1>2, <1>5, <2>1 DEF Lap
  <2>3. QED
    BY <1>1, <1>5, <2>2
<1>6. CASE ~Takes /\ ~tx_start
  <2>1. tx_start' = FALSE
    BY <1>2, <1>6
  <2>2. CASE u_tx.state = "IDLE"
    <3>1. u_tx'.state = "IDLE"
      BY <1>3, <1>6, <2>2, TxStep DEF TxIs
    <3>2. Lap' = Free /\ Lap = Free
      BY <1>6, <2>1, <2>2, <3>1 DEF Lap
    <3>3. QED
      BY <1>1, <1>6, <3>2
  <2>3. CASE u_tx.state = "START"
    <3>1. Lap = 2 + u_tx.clk_cnt
      BY <1>6, <2>3 DEF Lap
    <3>2. CASE u_tx.clk_cnt = LAST
      <4>1. u_tx'.state = "DATA" /\ u_tx'.clk_cnt = 0 /\ u_tx'.bit_idx = 0
        BY <1>3, <2>3, <3>2, TxStep, TxNow DEF TxIs
      <4>2. Lap' = 2 + CLKS_PER_BIT + 0 * CLKS_PER_BIT + 0
        BY <2>1, <4>1 DEF Lap
      <4>3. QED
        BY <1>1, <1>6, <3>1, <3>2, <4>2
    <3>3. CASE u_tx.clk_cnt # LAST
      <4>1. u_tx'.state = "START" /\ u_tx'.clk_cnt = u_tx.clk_cnt + 1
        BY <1>3, <2>3, <3>3, TxStep DEF TxIs
      <4>2. Lap' = 2 + (u_tx.clk_cnt + 1)
        BY <2>1, <4>1 DEF Lap
      <4>3. QED
        BY <1>1, <1>6, <3>1, <3>3, <4>2
    <3>4. QED
      BY <3>2, <3>3
  <2>4. CASE u_tx.state = "DATA"
    <3> DEFINE p == u_tx.bit_idx * CLKS_PER_BIT
    <3>1. Lap = 2 + CLKS_PER_BIT + p + u_tx.clk_cnt
      BY <1>6, <2>4 DEF Lap
    <3>2. p \in Nat /\ p <= 7 * CLKS_PER_BIT /\ (u_tx.bit_idx + 1) * CLKS_PER_BIT = p + CLKS_PER_BIT
      BY <1>1, Scale, ScaleMono
    <3>3. CASE u_tx.clk_cnt # LAST
      <4>1. u_tx'.state = "DATA" /\ u_tx'.clk_cnt = u_tx.clk_cnt + 1 /\ u_tx'.bit_idx = u_tx.bit_idx
        BY <1>3, <2>4, <3>3, TxStep DEF TxIs
      <4>2. Lap' = 2 + CLKS_PER_BIT + p + (u_tx.clk_cnt + 1)
        BY <2>1, <4>1 DEF Lap
      <4> HIDE DEF p
      <4>3. QED
        BY <1>1, <1>6, <3>1, <3>2, <3>3, <4>2
    <3>4. CASE u_tx.clk_cnt = LAST /\ u_tx.bit_idx # 7
      <4>1. u_tx'.state = "DATA" /\ u_tx'.clk_cnt = 0 /\ u_tx'.bit_idx = u_tx.bit_idx + 1
        BY <1>3, <2>4, <3>4, TxStep DEF TxIs
      <4>2. Lap' = 2 + CLKS_PER_BIT + (u_tx.bit_idx + 1) * CLKS_PER_BIT + 0
        BY <2>1, <4>1 DEF Lap
      <4>3. Lap' = 2 + CLKS_PER_BIT + (p + CLKS_PER_BIT) + 0
        BY <3>2, <4>2
      <4> HIDE DEF p
      <4>4. QED
        BY <1>1, <1>6, <3>1, <3>2, <3>4, <4>3
    <3>5. CASE u_tx.clk_cnt = LAST /\ u_tx.bit_idx = 7
      <4>1. u_tx'.state = "STOP" /\ u_tx'.clk_cnt = 0
        BY <1>3, <2>4, <3>5, TxStep DEF TxIs
      <4>2. Lap' = 2 + 9 * CLKS_PER_BIT + 0 /\ p = 7 * CLKS_PER_BIT
        BY <2>1, <3>5, <4>1 DEF Lap
      <4> HIDE DEF p
      <4>3. QED
        BY <1>1, <1>6, <3>1, <3>5, <4>2
    <3>6. QED
      BY <3>3, <3>4, <3>5
  <2>5. CASE u_tx.state = "STOP"
    <3>1. Lap = 2 + 9 * CLKS_PER_BIT + u_tx.clk_cnt
      BY <1>6, <2>5 DEF Lap
    <3>2. CASE u_tx.clk_cnt # LAST
      <4>1. u_tx'.state = "STOP" /\ u_tx'.clk_cnt = u_tx.clk_cnt + 1
        BY <1>3, <2>5, <3>2, TxStep DEF TxIs
      <4>2. Lap' = 2 + 9 * CLKS_PER_BIT + (u_tx.clk_cnt + 1)
        BY <2>1, <4>1 DEF Lap
      <4>3. QED
        BY <1>1, <1>6, <3>1, <3>2, <4>2
    <3>3. CASE u_tx.clk_cnt = LAST
      <4>1. u_tx'.state = "IDLE"
        BY <1>3, <2>5, <3>3, TxStep DEF TxIs
      <4>2. Lap' = Free
        BY <2>1, <4>1 DEF Lap
      <4>3. QED
        BY <1>1, <1>6, <3>1, <3>3, <4>2
    <3>4. QED
      BY <3>2, <3>3
  <2>6. QED
    BY <2>2, <2>3, <2>4, <2>5, TxNow
<1>7. QED
  BY <1>4, <1>5, <1>6

LEMMA LapOn ==
  ASSUME EchoOK, Echo, uart_tx, ~Takes, NEW n \in Nat, Free <= Lap + n + 1
  PROVE  Free <= Lap' + n
  BY LapStep, LapRange

\* uart_tx is done in at most n clocks.
DoneIn(n) == Free <= Lap + n

\* Clocks from the beginning of a frame to its byte's announcement.
Turn == 5 + HALF + 9 * CLKS_PER_BIT

NoneInHand == u_rx.state \in {"IDLE", "START"} /\ ~u_rx.valid

\* A host that leaves a second stop bit between bytes gives uart_tx the time to be done
\* before the next byte is announced.
InTime ==
  /\ host.pc = "idle" =>
       \/ NoneInHand /\ DoneIn(host.wait + 1 + Turn)
       \/ u_rx.state = "STOP" /\ DoneIn(2) /\ line.gap <= host.wait
       \/ u_rx.state = "DONE" /\ DoneIn(1) /\ line.gap <= host.wait + 1
       \/ u_rx.valid /\ DoneIn(0) /\ line.gap <= host.wait + 2
  /\ host.pc = "glitch" => NoneInHand /\ DoneIn(Turn)
  /\ host.pc = "send" =>
       \/ /\ SendEarly /\ NoneInHand
          /\ \/ host.t < SUB /\ DoneIn(Turn)
             \/ SUB <= host.t /\ host.t < 2 * SUB /\ DoneIn(Turn - 1)
             \/ 2 * SUB <= host.t /\ DoneIn(Turn - 2)
       \/ SendIn /\ Free + Age(u_rx) <= Lap + Turn
       \/ SendPast /\ DoneIn(line.gap + 1 + Turn)

LEMMA WhichPhase ==
  ASSUME EchoOK, host.pc = "send", Phase
  PROVE  /\ host.k = 0 /\ host.t < 3 * SUB => SendEarly
         /\ host.k = 0 /\ 3 * SUB <= host.t => SendIn
         /\ host.k # 0 => SendIn \/ SendPast
         /\ u_rx.state # "IDLE" \/ u_rx.valid => SendEarly \/ SendIn
         /\ SendIn => 3 * SUB <= Since
         /\ SendEarly => Since < 3 * SUB
<1>1. /\ host.k \in Nat /\ host.t \in Nat /\ line.rate \in Nat /\ SUB \in Nat /\ SUB > 0 /\ Since \in Nat
      /\ Age(u_rx) \in Nat /\ u_rx.clk_cnt \in Nat /\ HALF \in Nat /\ CLKS_PER_BIT \in Nat
      /\ u_rx.bit_idx \in Nat /\ u_rx.state \in {"IDLE", "START", "DATA", "STOP", "DONE"}
  <2>1. LAST \in Nat /\ u_rx.clk_cnt \in 0 .. LAST /\ u_rx.bit_idx \in 0 .. 7
    BY Now, BitTime
  <2>2. QED
    BY <2>1, Now, BitTime, AgeNat
<1>2. SendEarly \/ SendIn \/ SendPast
  BY DEF Phase
<1>3. SendIn => 3 * SUB <= Since
  <2>1. SUFFICES ASSUME SendIn PROVE 3 * SUB <= Since
    OBVIOUS
  <2>2. 3 <= Age(u_rx)
    <3>1. u_rx.bit_idx * CLKS_PER_BIT \in Nat /\ 9 * CLKS_PER_BIT \in Nat /\ 8 * CLKS_PER_BIT \in Nat
      BY <1>1
    <3> DEFINE p == u_rx.bit_idx * CLKS_PER_BIT
    <3>2. Age(u_rx) \in {3 + u_rx.clk_cnt, 4 + HALF + p + u_rx.clk_cnt,
                         4 + HALF + 8 * CLKS_PER_BIT + u_rx.clk_cnt,
                         4 + HALF + 9 * CLKS_PER_BIT, 5 + HALF + 9 * CLKS_PER_BIT}
      BY <1>1 DEF Age
    <3>3. p \in Nat
      BY <3>1
    <3> HIDE DEF p
    <3>4. QED
      BY <1>1, <3>2, <3>3
  <2>3. 3 * SUB <= Age(u_rx) * SUB
    BY <1>1, <2>2, ScaleMono
  <2>4. Age(u_rx) * SUB <= Since
    BY <2>1 DEF SendIn
  <2>5. Age(u_rx) * SUB \in Nat /\ 3 * SUB \in Nat
    BY <1>1, Scale
  <2>6. QED
    BY <1>1, <2>3, <2>4, <2>5
<1>4. host.k = 0 => Since = host.t
  <2>1. host.k = 0 => host.k * line.rate = 0
    BY <1>1
  <2>2. QED
    BY <1>1, <2>1 DEF Since
<1>5. SendEarly => host.k = 0 /\ host.t < 3 * SUB
  BY <1>1 DEF SendEarly
<1>6. SendPast => host.k = 9 /\ u_rx.state = "IDLE" /\ ~u_rx.valid
  BY DEF SendPast
<1>7. QED
  BY <1>1, <1>2, <1>3, <1>4, <1>5, <1>6

LEMMA LapNow == EchoOK => Lap \in Nat /\ Lap <= Free
BY LapRange

LEMMA EarlyNow == EchoOK /\ host.pc = "send" /\ Phase /\ host.k = 0 /\ host.t < 3 * SUB => SendEarly
BY WhichPhase

LEMMA NotAnew ==
  /\ EchoOK /\ host.pc = "send" /\ Phase => (SendEarly => Since < 3 * SUB)
  /\ EchoOK /\ host.pc = "send" => host.k <= 9
<1>1. EchoOK /\ host.pc = "send" => host.k <= 9
  BY DEF EchoOK, HostOK
<1>2. QED
  BY <1>1, WhichPhase

LEMMA InTimeFacts ==
  ASSUME Ticks
  PROVE  /\ EchoOK /\ EchoOK' /\ Echo /\ uart_tx /\ line' = line
         /\ Turn \in Nat /\ Turn = 5 + HALF + 9 * CLKS_PER_BIT /\ Free \in Nat /\ Free = 2 + 10 * CLKS_PER_BIT
         /\ HALF \in Nat /\ CLKS_PER_BIT \in Nat /\ 4 <= CLKS_PER_BIT
         /\ Lap \in Nat /\ Lap <= Free /\ Lap' \in Nat /\ Lap' <= Free
         /\ host.wait \in Nat /\ host'.wait \in Nat /\ line.gap \in Nat
         /\ (~u_rx.valid => ~Takes)
         /\ (u_rx.valid /\ DoneIn(0) => Takes /\ Lap' = 1)
<1>1. EchoOK /\ EchoOK' /\ Echo /\ uart_tx /\ line' = line /\ line \in Lines
  BY Now DEF Ticks
<1>2. /\ Turn \in Nat /\ Turn = 5 + HALF + 9 * CLKS_PER_BIT
      /\ HALF \in Nat /\ CLKS_PER_BIT \in Nat /\ 4 <= CLKS_PER_BIT
  <2>1. HALF \in Nat /\ CLKS_PER_BIT \in Nat /\ 4 <= CLKS_PER_BIT
    BY <1>1, BitTime, BitsLong
  <2>2. QED
    BY <2>1 DEF Turn
<1>3. Lap \in Nat /\ Lap <= Free /\ Free \in Nat /\ Free = 2 + 10 * CLKS_PER_BIT
      /\ (Lap = Free <=> u_tx.state = "IDLE" /\ ~tx_start)
  BY <1>1, LapRange DEF Free
<1>4. Lap' \in Nat /\ Lap' <= Free
  <2>1. (EchoOK => Lap \in Nat /\ Lap <= Free)'
    BY LapNow, PTL
  <2>2. QED
    BY <1>1, <2>1
<1>5. host.wait \in Nat /\ host'.wait \in Nat /\ line.gap \in Nat
  <2>1. host'.wait \in Nat
    BY <1>1 DEF EchoOK, EchoTypes
  <2>2. QED
    BY <1>1, <2>1, Now
<1>6. u_rx.valid /\ DoneIn(0) => Takes /\ Lap' = 1
  <2>1. SUFFICES ASSUME u_rx.valid, DoneIn(0) PROVE Takes /\ Lap' = 1
    OBVIOUS
  <2>2. Lap = Free
    BY <1>3, <2>1 DEF DoneIn
  <2>3. ~u_tx.busy
    BY <1>1, <1>3, <2>2, TxNow
  <2>4. Takes
    BY <2>1, <2>3 DEF Takes
  <2>5. QED
    BY <1>1, <2>4, LapStep
<1>7. ~u_rx.valid => ~Takes
  BY DEF Takes
<1>8. QED
  BY <1>1, <1>2, <1>3, <1>4, <1>5, <1>6, <1>7

LEMMA InTimeIdle ==
  ASSUME Ticks, Synced, Phase, Phase', InTime, CLKS_PER_BIT <= line.gap, host.pc = "idle"
  PROVE  InTime'
<1> USE InTimeFacts
<1>1. CASE NoneInHand /\ DoneIn(host.wait + 1 + Turn)
  <2>1. ~Takes /\ ~u_rx.valid
    BY <1>1 DEF NoneInHand
  <2>2. Free <= Lap' + host.wait + Turn
    <3>1. Free <= Lap + (host.wait + Turn) + 1 /\ host.wait + Turn \in Nat
      BY <1>1 DEF DoneIn
    <3>2. Free <= Lap' + (host.wait + Turn)
      BY <2>1, <3>1, LapOn
    <3>3. QED
      BY <3>2
  <2>3. u_rx'.state # "DATA" => NoneInHand'
    BY <1>1, RxNow DEF NoneInHand
  <2>4. CASE host'.pc = "idle" /\ host'.wait = IF host.wait = 0 THEN 0 ELSE host.wait - 1
    <3>1. u_rx'.state # "DATA"
      BY <2>4 DEF Phase, InIdle
    <3>2. Free <= Lap' + (host'.wait + 1 + Turn)
      BY <2>2, <2>4
    <3>3. QED
      BY <2>3, <2>4, <3>1, <3>2 DEF InTime, DoneIn
  <2>5. CASE host.wait = 0 /\ host'.pc = "send" /\ host'.k = 0 /\ host'.t < SUB
    <3>1. host'.t < 3 * SUB
      <4>1. SUB \in Nat /\ host'.t \in Nat
        BY BitTime DEF EchoOK, EchoTypes
      <4>2. QED
        BY <2>5, <4>1
    <3>2. SendEarly'
      <4>1. (EchoOK /\ host.pc = "send" /\ Phase /\ host.k = 0 /\ host.t < 3 * SUB => SendEarly)'
        BY EarlyNow, PTL
      <4>2. QED
        BY <2>5, <3>1, <4>1
    <3>3. NoneInHand'
      BY <2>3, <3>2 DEF SendEarly, Ending
    <3>4. Free <= Lap' + Turn
      BY <2>2, <2>5
    <3>5. QED
      BY <2>5, <3>2, <3>3, <3>4 DEF InTime, DoneIn
  <2>6. CASE host.wait = 0 /\ host'.pc = "glitch"
    <3>1. u_rx'.state # "DATA"
      BY <2>6 DEF Phase, InGlitch, Ending
    <3>2. Free <= Lap' + Turn
      BY <2>2, <2>6
    <3>3. QED
      BY <2>3, <2>6, <3>1, <3>2 DEF InTime, DoneIn
  <2>7. QED
    BY <2>4, <2>5, <2>6, IdleMoves
<1>2. CASE ~NoneInHand
  <2>1. line.gap <= host.wait + 2
    BY <1>2 DEF InTime
  <2>2. host.wait # 0
    BY <2>1
  <2>3. host'.pc = "idle" /\ host'.wait = host.wait - 1
    BY <2>2, IdleMoves
  <2>4. CASE u_rx.state = "STOP" /\ DoneIn(2) /\ line.gap <= host.wait
    <3>1. u_rx.clk_cnt = LAST /\ ~u_rx.valid /\ LAST \in Nat
      BY <2>4, Now, BitTime DEF Phase, InIdle
    <3>2. u_rx'.state = "DONE"
      BY <2>4, <3>1, RxNow
    <3>3. Free <= Lap' + 1
      <4>1. Free <= Lap + 1 + 1 /\ 1 \in Nat
        BY <2>4 DEF DoneIn
      <4>2. QED
        BY <3>1, <4>1, LapOn
    <3>4. line'.gap <= host'.wait + 1
      BY <2>2, <2>3, <2>4
    <3>5. QED
      BY <2>3, <3>2, <3>3, <3>4 DEF InTime, DoneIn
  <2>5. CASE u_rx.state = "DONE" /\ DoneIn(1) /\ line.gap <= host.wait + 1
    <3>1. ~u_rx.valid
      BY <2>5, Now
    <3>2. u_rx'.valid
      BY <2>5, RxNow
    <3>3. Free <= Lap' + 0
      <4>1. Free <= Lap + 0 + 1 /\ 0 \in Nat
        BY <2>5 DEF DoneIn
      <4>2. QED
        BY <3>1, <4>1, LapOn
    <3>4. line'.gap <= host'.wait + 2
      BY <2>2, <2>3, <2>5
    <3>5. QED
      BY <2>3, <3>2, <3>3, <3>4 DEF InTime, DoneIn
  <2>6. CASE u_rx.valid /\ DoneIn(0) /\ line.gap <= host.wait + 2
    <3>1. Lap' = 1
      BY <2>6
    <3>2. NoneInHand'
      <4>1. u_rx.state = "IDLE"
        BY <2>6, Now
      <4>2. QED
        BY <4>1, RxNow DEF NoneInHand
    <3>3. Free <= Lap' + (host'.wait + 1 + Turn)
      BY <2>2, <2>3, <2>6, <3>1
    <3>4. QED
      BY <2>3, <3>2, <3>3 DEF InTime, DoneIn
  <2>7. QED
    BY <1>2, <2>4, <2>5, <2>6 DEF InTime
<1>3. NoneInHand => DoneIn(host.wait + 1 + Turn)
  BY Now DEF InTime, NoneInHand
<1>4. QED
  BY <1>1, <1>2, <1>3

LEMMA InTimeGlitch ==
  ASSUME Ticks, Phase', InTime, host.pc = "glitch"
  PROVE  InTime'
<1> USE InTimeFacts
<1>1. NoneInHand /\ DoneIn(Turn)
  BY DEF InTime
<1>2. ~Takes /\ Free <= Lap' + Turn
  <2>1. ~Takes
    BY <1>1 DEF NoneInHand
  <2>2. Free <= Lap + Turn + 1
    BY <1>1 DEF DoneIn
  <2>3. QED
    BY <2>1, <2>2, LapOn
<1>3. u_rx'.state # "DATA" => NoneInHand'
  BY <1>1, RxNow DEF NoneInHand
<1>4. CASE host'.pc = "glitch"
  <2>1. u_rx'.state # "DATA"
    BY <1>4 DEF Phase, InGlitch, Ending
  <2>2. QED
    BY <1>2, <1>3, <1>4, <2>1 DEF InTime, DoneIn
<1>5. CASE host'.pc = "idle" /\ host'.wait = CLKS_PER_BIT
  <2>1. u_rx'.state # "DATA"
    BY <1>5 DEF Phase, InIdle
  <2>2. Free <= Lap' + (host'.wait + 1 + Turn)
    BY <1>2
  <2>3. QED
    BY <1>3, <1>5, <2>1, <2>2 DEF InTime, DoneIn
<1>6. QED
  BY <1>4, <1>5, GlitchMoves

\* The age of the frame received and its announcement.
LEMMA AgeTop ==
  ASSUME EchoOK
  PROVE  /\ u_rx.state # "IDLE" => Age(u_rx) + 1 <= Turn
         /\ u_rx.state = "STOP" => Age(u_rx) + 3 + LAST = Turn + 1 + u_rx.clk_cnt
         /\ u_rx.state = "DONE" => Age(u_rx) + 1 = Turn
         /\ u_rx.state = "IDLE" => Age(u_rx) = Turn
<1>1. /\ HALF \in Nat /\ CLKS_PER_BIT \in Nat /\ LAST \in Nat /\ CLKS_PER_BIT = LAST + 1 /\ HALF <= LAST
      /\ u_rx.clk_cnt \in Nat /\ u_rx.clk_cnt <= LAST /\ u_rx.bit_idx \in Nat /\ u_rx.bit_idx <= 7
      /\ u_rx.state \in {"IDLE", "START", "DATA", "STOP", "DONE"}
  <2>1. u_rx.clk_cnt \in 0 .. LAST /\ u_rx.bit_idx \in 0 .. 7
        /\ u_rx.state \in {"IDLE", "START", "DATA", "STOP", "DONE"}
    BY Now
  <2>2. QED
    BY <2>1, BitTime
<1> DEFINE p == u_rx.bit_idx * CLKS_PER_BIT
<1>2. p \in Nat /\ p <= 7 * CLKS_PER_BIT
  BY <1>1, Scale, ScaleMono
<1>3. /\ u_rx.state = "START" => Age(u_rx) = 3 + u_rx.clk_cnt
      /\ u_rx.state = "DATA"  => Age(u_rx) = 4 + HALF + p + u_rx.clk_cnt
      /\ u_rx.state = "STOP"  => Age(u_rx) = 4 + HALF + 8 * CLKS_PER_BIT + u_rx.clk_cnt
      /\ u_rx.state = "DONE"  => Age(u_rx) = 4 + HALF + 9 * CLKS_PER_BIT
      /\ u_rx.state = "IDLE"  => Age(u_rx) = 5 + HALF + 9 * CLKS_PER_BIT
  BY DEF Age
<1> HIDE DEF p
<1>4. Turn = 5 + HALF + 9 * CLKS_PER_BIT
  BY DEF Turn
<1>5. QED
  BY <1>1, <1>2, <1>3, <1>4

LEMMA EarlyIs == ASSUME EchoOK, SendEarly PROVE host.k = 0 /\ host.t < 3 * SUB
<1>1. host.t \in Nat /\ SUB \in Nat
  BY Now, BitTime
<1>2. QED
  BY <1>1 DEF SendEarly

LEMMA InTimeEarly ==
  ASSUME Ticks, Synced, Phase', host.pc = "send", SendEarly, NoneInHand,
         \/ host.t < SUB /\ DoneIn(Turn)
         \/ SUB <= host.t /\ host.t < 2 * SUB /\ DoneIn(Turn - 1)
         \/ 2 * SUB <= host.t /\ DoneIn(Turn - 2)
  PROVE  InTime'
<1> USE InTimeFacts
<1>1. /\ SUB \in Nat /\ SUB > 0 /\ host.t \in Nat /\ host'.t \in Nat /\ 3 * SUB <= line.rate /\ line.rate \in Nat
      /\ host.k = 0 /\ host.t < 3 * SUB
  <2>1. host'.t \in Nat
    BY DEF EchoOK, EchoTypes
  <2>2. SUB \in Nat /\ SUB > 0 /\ host.t \in Nat /\ line.rate \in Nat /\ 3 * SUB <= line.rate
    BY BitTime, Now
  <2>3. QED
    BY <2>1, <2>2, EarlyIs
<1>2. ~Takes /\ ~u_rx.valid
  BY DEF NoneInHand
<1>3. FrameGoes
  BY <1>1, SendMoves DEF FrameOver, FrameNext, FrameEnds
<1>4. host'.pc = "send"
  BY <1>3 DEF FrameGoes
<1>5. ~u_rx'.valid /\ u_rx'.state \in {"IDLE", "START", "DATA"}
  BY RxNow DEF NoneInHand
<1>6. CASE host.t < 2 * SUB
  <2>1. host'.k = 0 /\ host'.t = host.t + SUB
    BY <1>1, <1>3, <1>6 DEF FrameGoes
  <2>2. SendEarly'
    <3>1. host'.t < 3 * SUB
      BY <1>1, <1>6, <2>1
    <3>2. (EchoOK /\ host.pc = "send" /\ Phase /\ host.k = 0 /\ host.t < 3 * SUB => SendEarly)'
      BY EarlyNow, PTL
    <3>3. QED
      BY <1>4, <2>1, <3>1, <3>2
  <2>3. NoneInHand'
    BY <1>5, <2>2 DEF SendEarly, Ending, NoneInHand
  <2>4. CASE host.t < SUB
    <3>1. Free <= Lap + (Turn - 1) + 1 /\ Turn - 1 \in Nat
      BY <1>1, <2>4 DEF DoneIn
    <3>2. Free <= Lap' + (Turn - 1)
      BY <1>2, <3>1, LapOn
    <3>3. SUB <= host'.t /\ host'.t < 2 * SUB
      BY <1>1, <2>1, <2>4
    <3>4. QED
      BY <1>4, <2>2, <2>3, <3>2, <3>3 DEF InTime, DoneIn, Turn
  <2>5. CASE SUB <= host.t
    <3>1. Free <= Lap + (Turn - 2) + 1 /\ Turn - 2 \in Nat
      BY <1>1, <1>6, <2>5 DEF DoneIn
    <3>2. Free <= Lap' + (Turn - 2)
      BY <1>2, <3>1, LapOn
    <3>3. 2 * SUB <= host'.t
      BY <1>1, <2>1, <2>5
    <3>4. QED
      BY <1>4, <2>2, <2>3, <3>2, <3>3 DEF InTime, DoneIn, Turn
  <2>6. QED
    BY <1>1, <2>4, <2>5
<1>7. CASE 2 * SUB <= host.t
  <2>1. u_rx.state = "IDLE"
    BY DEF SendEarly, Ending, NoneInHand
  <2>2. rx_sync = 0
    BY <1>1, <1>7 DEF Synced, FrameBit
  <2>3. u_rx'.state = "START" /\ u_rx'.clk_cnt = 0
    BY <2>1, <2>2, RxNow
  <2>4. SendIn'
    BY <1>4, <1>5, <2>3 DEF Phase, SendEarly, SendPast, Ending
  <2>5. Age(u_rx)' = 3
    BY <2>3 DEF Age
  <2>6. Free <= Lap' + (Turn - 3)
    <3>1. Free <= Lap + (Turn - 3) + 1 /\ Turn - 3 \in Nat
      BY <1>1, <1>7 DEF DoneIn
    <3>2. QED
      BY <1>2, <3>1, LapOn
  <2>7. Free' + Age(u_rx)' <= Lap' + Turn'
    BY <2>5, <2>6 DEF Free, Turn
  <2>8. QED
    BY <1>4, <2>4, <2>7 DEF InTime
<1>8. QED
  BY <1>1, <1>6, <1>7

LEMMA InTimePast ==
  ASSUME Ticks, Synced, Phase', host.pc = "send", SendPast, DoneIn(line.gap + 1 + Turn), CLKS_PER_BIT <= line.gap
  PROVE  InTime'
<1> USE InTimeFacts
<1>1. host.k = 9 /\ 2 * SUB <= host.t /\ u_rx.state = "IDLE" /\ ~u_rx.valid /\ ~Takes
  BY DEF SendPast
<1>2. rx_sync = 1
  BY <1>1 DEF Synced, FrameBit
<1>3. u_rx'.state = "IDLE" /\ ~u_rx'.valid
  BY <1>1, <1>2, RxNow
<1>4. Free <= Lap' + (line.gap + 1 + Turn)
  <2>1. Free <= Lap + (line.gap + 1 + Turn) + 1 /\ line.gap + 1 + Turn \in Nat
    BY DEF DoneIn
  <2>2. QED
    BY <1>1, <2>1, LapOn
<1>5. CASE FrameGoes
  <2>1. host'.pc = "send" /\ (host'.k = 9 \/ host'.k = 10)
    BY <1>1, <1>5 DEF FrameGoes
  <2>2. SendPast'
    <3>1. ~SendIn'
      BY <1>3 DEF SendIn
    <3>2. host'.k # 0
      BY <2>1
    <3>3. ~SendEarly'
      BY <3>2 DEF SendEarly
    <3>4. QED
      BY <2>1, <3>1, <3>3 DEF Phase
  <2>3. QED
    BY <1>4, <2>1, <2>2 DEF InTime, DoneIn, Free, Turn
<1>6. CASE FrameOver
  <2>1. host'.pc = "idle" /\ host'.wait = line.gap /\ NoneInHand'
    BY <1>3, <1>6 DEF FrameOver, NoneInHand
  <2>2. QED
    BY <1>4, <2>1 DEF InTime, DoneIn, Free, Turn
<1>7. ~FrameNext
  BY DEF FrameNext
<1>8. QED
  BY <1>5, <1>6, <1>7, SendMoves

LEMMA InTimeIn ==
  ASSUME Ticks, Synced, Phase', host.pc = "send", SendIn, Free + Age(u_rx) <= Lap + Turn, CLKS_PER_BIT <= line.gap
  PROVE  InTime'
<1> USE InTimeFacts
<1>1. Age(u_rx) \in Nat /\ LAST \in Nat /\ SUB \in Nat /\ SUB > 0
  BY AgeNat, BitTime
<1>2. ~FrameNext
  BY DEF FrameNext
<1>3. CASE u_rx.state # "IDLE"
  <2>1. ~u_rx.valid /\ ~Takes
    BY <1>3, Now
  <2>2. Age(u_rx)' = Age(u_rx) + 1 /\ (u_rx'.state = "IDLE" => u_rx'.valid)
    BY <1>3, AgeStep
  <2>3. Age(u_rx) + 1 <= Turn
    BY <1>3, AgeTop
  <2>4. Lap' = IF Lap < Free THEN Lap + 1 ELSE Free
    BY <2>1, LapStep
  <2>5. Free + Age(u_rx) + 1 <= Lap' + Turn
    BY <1>1, <2>3, <2>4
  <2>6. CASE FrameGoes
    <3>1. host'.pc = "send" /\ Since' = Since + SUB
      BY <2>6 DEF FrameGoes
    <3>2. 3 * SUB <= Since /\ Since \in Nat
      BY WhichPhase, Now DEF Phase
    <3>3. ~SendEarly'
      <4>1. (EchoOK /\ host.pc = "send" /\ Phase => (SendEarly => Since < 3 * SUB))'
        BY NotAnew, PTL
      <4>2. QED
        BY <1>1, <3>1, <3>2, <4>1
    <3>4. SendIn'
      BY <2>2, <3>1, <3>3 DEF Phase, SendPast
    <3>5. Free' + Age(u_rx)' <= Lap' + Turn'
      BY <1>1, <2>2, <2>5 DEF Free, Turn
    <3>6. QED
      BY <3>1, <3>4, <3>5 DEF InTime
  <2>7. CASE FrameOver
    <3>1. host'.pc = "idle" /\ host'.wait = line.gap /\ host.k = 9 /\ line.rate <= host.t + SUB
      BY <2>7 DEF FrameOver, FrameEnds
    <3>2. u_rx.state \in {"STOP", "DONE"} /\ (u_rx.state = "STOP" => LAST <= u_rx.clk_cnt + 1)
      BY <1>3, <3>1, FrameAge
    <3>3. u_rx.clk_cnt \in Nat /\ u_rx.clk_cnt <= LAST
      <4>1. u_rx.clk_cnt \in 0 .. LAST
        BY Now
      <4>2. QED
        BY <1>1, <4>1
    <3>4. CASE u_rx.state = "STOP" /\ u_rx.clk_cnt < LAST
      <4>1. u_rx'.state = "STOP"
        BY <1>1, <3>3, <3>4, RxNow
      <4>2. Age(u_rx) + 3 = Turn
        <5>1. Age(u_rx) + 3 + LAST = Turn + 1 + u_rx.clk_cnt
          BY <3>4, AgeTop
        <5>2. QED
          BY <1>1, <3>2, <3>3, <3>4, <5>1
      <4>3. Free <= Lap' + 2
        BY <1>1, <2>5, <4>2
      <4>4. QED
        BY <3>1, <4>1, <4>3 DEF InTime, DoneIn, Free
    <3>5. CASE u_rx.state = "STOP" /\ u_rx.clk_cnt = LAST
      <4>1. u_rx'.state = "DONE"
        BY <1>1, <3>5, RxNow
      <4>2. Age(u_rx) + 2 = Turn
        <5>1. Age(u_rx) + 3 + LAST = Turn + 1 + u_rx.clk_cnt
          BY <3>5, AgeTop
        <5>2. QED
          BY <1>1, <3>5, <5>1
      <4>3. Free <= Lap' + 1
        BY <1>1, <2>5, <4>2
      <4>4. QED
        BY <3>1, <4>1, <4>3 DEF InTime, DoneIn, Free
    <3>6. CASE u_rx.state = "DONE"
      <4>1. u_rx'.valid
        BY <3>6, RxNow
      <4>2. Age(u_rx) + 1 = Turn
        BY <3>6, AgeTop
      <4>3. Free <= Lap' + 0
        BY <1>1, <2>5, <4>2
      <4>4. QED
        BY <3>1, <4>1, <4>3 DEF InTime, DoneIn, Free
    <3>7. QED
      BY <1>1, <3>2, <3>3, <3>4, <3>5, <3>6
  <2>8. QED
    BY <1>2, <2>6, <2>7, SendMoves
<1>4. CASE u_rx.state = "IDLE"
  <2>1. u_rx.valid
    BY <1>4 DEF SendIn
  <2>2. Lap' = 1
    <3>1. Age(u_rx) = Turn
      BY <1>4, AgeTop
    <3>2. DoneIn(0)
      BY <3>1 DEF DoneIn
    <3>3. QED
      BY <2>1, <3>2
  <2>3. host.k = 9 /\ 2 * SUB <= host.t /\ rx_sync = 1
    BY <1>4, Announced
  <2>4. u_rx'.state = "IDLE" /\ ~u_rx'.valid
    BY <1>4, <2>3, RxNow
  <2>5. Free <= Lap' + (line.gap + 1 + Turn)
    BY <2>2
  <2>6. CASE FrameGoes
    <3>1. host'.pc = "send" /\ (host'.k = 9 \/ host'.k = 10)
      BY <2>3, <2>6 DEF FrameGoes
    <3>2. SendPast'
      <4>1. ~SendIn'
        BY <2>4 DEF SendIn
      <4>2. host'.k # 0
        BY <3>1
      <4>3. ~SendEarly'
        BY <4>2 DEF SendEarly
      <4>4. QED
        BY <3>1, <4>1, <4>3 DEF Phase
    <3>3. QED
      BY <2>5, <3>1, <3>2 DEF InTime, DoneIn, Free, Turn
  <2>7. CASE FrameOver
    <3>1. host'.pc = "idle" /\ host'.wait = line.gap /\ NoneInHand'
      BY <2>4, <2>7 DEF FrameOver, NoneInHand
    <3>2. QED
      BY <2>5, <3>1 DEF InTime, DoneIn, Free, Turn
  <2>8. QED
    BY <1>2, <2>6, <2>7, SendMoves
<1>5. QED
  BY <1>3, <1>4

LEMMA InTimeStep ==
  ASSUME Ticks, Synced, Phase, Phase', InTime, CLKS_PER_BIT <= line.gap
  PROVE  InTime'
<1>1. CASE host.pc = "idle"
  BY <1>1, InTimeIdle
<1>2. CASE host.pc = "glitch"
  BY <1>2, InTimeGlitch
<1>3. CASE host.pc = "send"
  BY <1>3, InTimeEarly, InTimeIn, InTimePast DEF InTime
<1>4. QED
  BY <1>1, <1>2, <1>3, InTimeFacts, Now

LEMMA InTimeQuiet ==
  ASSUME EchoOK, host.pc = "idle", NoneInHand, ~tx_start, u_tx.state = "IDLE"
  PROVE  InTime
<1>1. Lap = Free /\ Free \in Nat
  BY LapRange
<1>2. host.wait \in Nat /\ HALF \in Nat /\ CLKS_PER_BIT \in Nat
  BY Now, BitTime
<1>3. DoneIn(host.wait + 1 + Turn)
  BY <1>1, <1>2 DEF DoneIn, Turn
<1>4. QED
  BY <1>3 DEF InTime

LEMMA InTimeTakes ==
  ASSUME EchoOK, InTime, u_rx.valid
  PROVE  Takes
<1>1. Free \in Nat /\ Lap \in Nat /\ Lap <= Free /\ (Lap = Free <=> u_tx.state = "IDLE" /\ ~tx_start)
      /\ Turn \in Nat
  <2>1. Turn \in Nat
    BY BitTime DEF Turn
  <2>2. QED
    BY <2>1, LapRange
<1>2. u_rx.state = "IDLE" /\ ~NoneInHand /\ host.pc \in {"idle", "send", "glitch"}
  BY Now DEF NoneInHand
<1>3. CASE host.pc = "idle"
  <2>1. DoneIn(0)
    BY <1>2, <1>3 DEF InTime
  <2>2. QED
    BY <1>1, <2>1, TxNow DEF DoneIn, Takes
<1>4. CASE host.pc = "send"
  <2>1. SendIn /\ Free + Age(u_rx) <= Lap + Turn
    BY <1>2, <1>4 DEF InTime, SendPast
  <2>2. Age(u_rx) = Turn
    BY <1>2, AgeTop
  <2>3. QED
    BY <1>1, <2>1, <2>2, TxNow DEF Takes
<1>5. QED
  BY <1>2, <1>3, <1>4 DEF InTime

\* uart_tx's output is a clock behind its state.
TxOut ==
  /\ u_tx.state = "START" => u_tx.tx = IF u_tx.clk_cnt = 0 THEN 1 ELSE 0
  /\ u_tx.state = "DATA"  =>
       u_tx.tx = FrameBit(u_tx.shreg, IF u_tx.clk_cnt = 0 THEN u_tx.bit_idx ELSE u_tx.bit_idx + 1)
  /\ u_tx.state = "STOP"  => u_tx.tx = IF u_tx.clk_cnt = 0 THEN u_tx.shreg[7] ELSE 1

LEMMA TxOutStep ==
  ASSUME EchoOK, TxOut, uart_tx
  PROVE  TxOut'
<1>1. u_tx.bit_idx \in Nat /\ u_tx.bit_idx <= 7 /\ u_tx.clk_cnt \in Nat /\ (u_tx.state # "DATA" => u_tx.bit_idx = 0)
  BY TxNow
<1>2. FrameBit(u_tx.shreg, u_tx.bit_idx + 1) = u_tx.shreg[u_tx.bit_idx]
  <2>1. u_tx.bit_idx + 1 # 0 /\ u_tx.bit_idx + 1 # 9 /\ (u_tx.bit_idx + 1) - 1 = u_tx.bit_idx
    BY <1>1
  <2>2. QED
    BY <2>1 DEF FrameBit
<1>3. u_tx.clk_cnt + 1 # 0
  BY <1>1
<1>4. EchoTypes
  BY DEF EchoOK
<1>5. CASE u_tx.state = "IDLE"
  <2>1. u_tx'.state # "IDLE" => u_tx'.state = "START" /\ u_tx'.clk_cnt = 0 /\ u_tx'.tx = 1
    BY <1>4, <1>5, TxStep DEF TxIs
  <2>2. QED
    BY <2>1 DEF TxOut
<1>6. CASE u_tx.state = "START" /\ u_tx.clk_cnt # LAST
  <2>1. u_tx'.state = "START" /\ u_tx'.clk_cnt = u_tx.clk_cnt + 1 /\ u_tx'.tx = 0
    BY <1>4, <1>6, TxStep DEF TxIs
  <2>2. QED
    BY <1>3, <2>1 DEF TxOut
<1>7. CASE u_tx.state = "START" /\ u_tx.clk_cnt = LAST
  <2>1. u_tx'.state = "DATA" /\ u_tx'.clk_cnt = 0 /\ u_tx'.bit_idx = 0 /\ u_tx'.tx = 0
    BY <1>1, <1>4, <1>7, TxStep DEF TxIs
  <2>2. QED
    BY <2>1 DEF TxOut, FrameBit
<1>8. CASE u_tx.state = "DATA" /\ u_tx.clk_cnt # LAST
  <2>1. u_tx'.state = "DATA" /\ u_tx'.clk_cnt = u_tx.clk_cnt + 1 /\ u_tx'.tx = u_tx.shreg[u_tx.bit_idx]
        /\ u_tx'.bit_idx = u_tx.bit_idx /\ u_tx'.shreg = u_tx.shreg
    BY <1>4, <1>8, TxStep DEF TxIs
  <2>2. u_tx'.tx = FrameBit(u_tx'.shreg, u_tx'.bit_idx + 1)
    BY <1>2, <2>1
  <2>3. QED
    BY <1>3, <2>1, <2>2 DEF TxOut
<1>9. CASE u_tx.state = "DATA" /\ u_tx.clk_cnt = LAST
  <2>1. u_tx'.tx = u_tx.shreg[u_tx.bit_idx] /\ u_tx'.shreg = u_tx.shreg /\ u_tx'.clk_cnt = 0
        /\ \/ u_tx'.state = "DATA" /\ u_tx'.bit_idx = u_tx.bit_idx + 1
           \/ u_tx'.state = "STOP" /\ u_tx.bit_idx = 7
    BY <1>4, <1>9, TxStep DEF TxIs
  <2>2. u_tx'.tx = FrameBit(u_tx'.shreg, u_tx.bit_idx + 1)
    BY <1>2, <2>1
  <2>3. QED
    BY <2>1, <2>2 DEF TxOut
<1>10. CASE u_tx.state = "STOP"
  <2>1. \/ u_tx'.state = "STOP" /\ u_tx'.clk_cnt = u_tx.clk_cnt + 1 /\ u_tx'.tx = 1
        \/ u_tx'.state = "IDLE"
    BY <1>4, <1>10, TxStep DEF TxIs
  <2>2. QED
    BY <1>3, <2>1 DEF TxOut
<1>11. QED
  BY <1>5, <1>6, <1>7, <1>8, <1>9, <1>10, TxNow

\* From three clocks after it took a byte uart_tx shows its frame, bit after bit.
LEMMA TxShown ==
  ASSUME EchoOK, TxOut, ~tx_start, 3 <= Lap, u_tx.state = "IDLE" => u_tx.tx = 1
  PROVE  \E n \in 0 .. 9 : /\ n * CLKS_PER_BIT <= Lap - 3 /\ Lap - 3 < (n + 1) * CLKS_PER_BIT
                           /\ u_tx.tx = FrameBit(u_tx.shreg, n)
<1>1. /\ CLKS_PER_BIT \in Nat /\ LAST \in Nat /\ CLKS_PER_BIT = LAST + 1 /\ Free = 2 + 10 * CLKS_PER_BIT
      /\ u_tx.clk_cnt \in Nat /\ u_tx.clk_cnt <= LAST
      /\ u_tx.state \in {"IDLE", "START", "DATA", "STOP"} /\ u_tx.bit_idx \in 0 .. 7
      /\ Lap \in Nat
  <2>1. u_tx.bit_idx \in 0 .. 7
    BY TxNow
  <2>2. QED
    BY <2>1, BitTime, TxNow, LapRange DEF Free
<1>2. CASE u_tx.state = "START"
  <2>1. Lap = 2 + u_tx.clk_cnt
    BY <1>2 DEF Lap
  <2>2. u_tx.clk_cnt # 0
    BY <2>1
  <2>3. u_tx.tx = FrameBit(u_tx.shreg, 0)
    BY <1>2, <2>2 DEF TxOut, FrameBit
  <2>4. 0 * CLKS_PER_BIT <= Lap - 3 /\ Lap - 3 < (0 + 1) * CLKS_PER_BIT
    BY <1>1, <2>1, <2>2
  <2>5. QED
    BY <2>3, <2>4
<1>3. CASE u_tx.state = "DATA"
  <2>1. PICK i \in 0 .. 7 : i = u_tx.bit_idx
    BY <1>1
  <2> DEFINE p == i * CLKS_PER_BIT
  <2>2. p \in Nat /\ (i + 1) * CLKS_PER_BIT = p + CLKS_PER_BIT /\ (i + 2) * CLKS_PER_BIT = p + 2 * CLKS_PER_BIT
    <3>1. i + 1 \in Nat /\ i \in Nat
      OBVIOUS
    <3>2. ((i + 1) + 1) * CLKS_PER_BIT = (i + 1) * CLKS_PER_BIT + CLKS_PER_BIT
      BY <1>1, <3>1, Scale
    <3>3. (i + 1) + 1 = i + 2
      OBVIOUS
    <3>4. (i + 1) * CLKS_PER_BIT = p + CLKS_PER_BIT /\ p \in Nat
      BY <1>1, <3>1, Scale
    <3> HIDE DEF p
    <3>5. (i + 2) * CLKS_PER_BIT = (p + CLKS_PER_BIT) + CLKS_PER_BIT
      BY <3>2, <3>3, <3>4
    <3>6. QED
      BY <1>1, <3>4, <3>5
  <2>3. Lap = 2 + CLKS_PER_BIT + p + u_tx.clk_cnt
    BY <1>3, <2>1 DEF Lap
  <2>4. CASE u_tx.clk_cnt = 0
    <3>1. u_tx.tx = FrameBit(u_tx.shreg, i)
      BY <1>3, <2>1, <2>4 DEF TxOut
    <3>2. p <= Lap - 3 /\ Lap - 3 < (i + 1) * CLKS_PER_BIT
      <4> HIDE DEF p
      <4>1. QED
        BY <1>1, <2>2, <2>3, <2>4
    <3>3. i \in 0 .. 9
      OBVIOUS
    <3>4. QED
      BY <3>1, <3>2, <3>3
  <2>5. CASE u_tx.clk_cnt # 0
    <3>1. u_tx.tx = FrameBit(u_tx.shreg, i + 1)
      BY <1>3, <2>1, <2>5 DEF TxOut
    <3>2. (i + 1) * CLKS_PER_BIT <= Lap - 3 /\ Lap - 3 < (i + 2) * CLKS_PER_BIT
      <4> HIDE DEF p
      <4>1. QED
        BY <1>1, <2>2, <2>3, <2>5
    <3>3. i + 1 \in 0 .. 9 /\ (i + 1) + 1 = i + 2
      OBVIOUS
    <3>4. (i + 1) * CLKS_PER_BIT <= Lap - 3 /\ Lap - 3 < ((i + 1) + 1) * CLKS_PER_BIT
      BY <3>2, <3>3
    <3>5. QED
      BY <3>1, <3>3, <3>4
  <2>6. QED
    BY <2>4, <2>5
<1>4. CASE u_tx.state = "STOP"
  <2>1. Lap = 2 + 9 * CLKS_PER_BIT + u_tx.clk_cnt
    BY <1>4 DEF Lap
  <2>2. CASE u_tx.clk_cnt = 0
    <3>1. u_tx.tx = FrameBit(u_tx.shreg, 8)
      BY <1>4, <2>2 DEF TxOut, FrameBit
    <3>2. 8 * CLKS_PER_BIT <= Lap - 3 /\ Lap - 3 < (8 + 1) * CLKS_PER_BIT /\ 8 \in 0 .. 9
      BY <1>1, <2>1, <2>2
    <3>3. QED
      BY <3>1, <3>2
  <2>3. CASE u_tx.clk_cnt # 0
    <3>1. u_tx.tx = FrameBit(u_tx.shreg, 9)
      BY <1>4, <2>3 DEF TxOut, FrameBit
    <3>2. 9 * CLKS_PER_BIT <= Lap - 3 /\ Lap - 3 < (9 + 1) * CLKS_PER_BIT /\ 9 \in 0 .. 9
      BY <1>1, <2>1, <2>3
    <3>3. QED
      BY <3>1, <3>2
  <2>4. QED
    BY <2>2, <2>3
<1>5. CASE u_tx.state = "IDLE"
  <2>1. Lap = 2 + 10 * CLKS_PER_BIT
    BY <1>1, <1>5 DEF Lap
  <2>2. u_tx.tx = FrameBit(u_tx.shreg, 9)
    BY <1>5 DEF FrameBit
  <2>3. 9 * CLKS_PER_BIT <= Lap - 3 /\ Lap - 3 < (9 + 1) * CLKS_PER_BIT /\ 9 \in 0 .. 9
    BY <1>1, <2>1
  <2>4. QED
    BY <2>2, <2>3
<1>6. QED
  BY <1>1, <1>2, <1>3, <1>4, <1>5

\* The bytes to be echoed, while no byte finds uart_tx busy when the host leaves it the time.
LEMMA DueIs ==
  ASSUME Ticks, CLKS_PER_BIT <= line.gap => InTime
  PROVE  due' = LET rest == IF term.k = 11 THEN Drop1(due) ELSE due IN
                IF Takes THEN Append(rest, u_rx.data) ELSE rest
<1>1. calm' /\ History(FALSE) /\ EchoOK
  BY DEF Ticks
<1>2. u_rx.valid /\ line.gap >= CLKS_PER_BIT => Takes
  <2>1. line.gap \in Nat /\ CLKS_PER_BIT \in Nat
    BY <1>1, Now, BitTime
  <2>2. line.gap >= CLKS_PER_BIT => CLKS_PER_BIT <= line.gap
    BY <2>1
  <2>3. QED
    BY <1>1, <2>2, InTimeTakes
<1>3. QED
  BY <1>1, <1>2 DEF History

-----------------------------------------------------------------------------
(* The host's receiver: it samples every bit of the frame uart_tx shows.    *)

LEMMA NotBefore ==
  ASSUME NEW c \in Nat, NEW n \in Nat, NEW s \in Nat, NEW t \in Nat, s > 0,
         t + 4 * s = n * s, 2 * c * s <= 2 * t
  PROVE  c + 4 <= n
<1>1. (2 * c + 8) * s < (2 * n + 1) * s
  <2> DEFINE p == c * s
             q == n * s
  <2>1. p \in Nat /\ q \in Nat /\ (2 * c + 8) * s = 2 * p + 8 * s /\ (2 * n + 1) * s = 2 * q + s
        /\ 2 * c * s = 2 * p
    OBVIOUS
  <2>2. t + 4 * s = q /\ 2 * p <= 2 * t
    BY <2>1
  <2> HIDE DEF p, q
  <2>3. 2 * p + 8 * s < 2 * q + s
    BY <2>1, <2>2
  <2>4. QED
    BY <2>1, <2>3
<1>2. 2 * c + 8 \in Nat /\ 2 * n + 1 \in Nat
  OBVIOUS
<1>3. 2 * c + 8 < 2 * n + 1
  BY <1>1, <1>2, ScaleCancel
<1>4. QED
  BY <1>3

LEMMA NotAfter ==
  ASSUME NEW a \in Nat, NEW n \in Nat, NEW s \in Nat, NEW t \in Nat, NEW e \in Nat,
         2 <= a, t + 4 * s = n * s, 2 * t < 2 * (a - 2) * s + e * s
  PROVE  2 * n < 2 * a + 4 + e
<1>1. (2 * n) * s < (2 * a + 4 + e) * s
  <2> DEFINE p == a * s
             q == n * s
             x == e * s
  <2>1. p \in Nat /\ q \in Nat /\ x \in Nat /\ (2 * n) * s = 2 * q
        /\ (2 * a + 4 + e) * s = 2 * p + 4 * s + x /\ 2 * (a - 2) * s = 2 * p - 4 * s
    OBVIOUS
  <2>2. t + 4 * s = q /\ 2 * t < 2 * p - 4 * s + x
    BY <2>1
  <2> HIDE DEF p, q, x
  <2>3. 2 * q < 2 * p + 4 * s + x
    BY <2>1, <2>2
  <2>4. QED
    BY <2>1, <2>3
<1>2. 2 * n \in Nat /\ 2 * a + 4 + e \in Nat
  OBVIOUS
<1>3. QED
  BY <1>1, <1>2, ScaleCancel

\* In the frame: the host counts clocks from the start bit's edge, uart_tx from the byte.
TermIn == /\ term.k \in 1 .. 10 /\ ~tx_start /\ due = <<u_tx.shreg>>
          /\ 4 <= Lap /\ term.t + 4 * SUB = Lap * SUB
          /\ 2 * term.t < (2 * term.k - 1) * line.rate + 2 * SUB
          /\ \A i \in 0 .. 7 : i + 2 < term.k => term.bits[i] = u_tx.shreg[i]
          /\ u_tx.state = "IDLE" => u_tx.tx = 1

LEMMA TermSees ==
  ASSUME EchoOK, TxOut, TermIn
  PROVE  /\ ~Middle \/ term.k # 10 => Lap < Free
         /\ Middle => u_tx.tx = FrameBit(u_tx.shreg, term.k - 1)
         /\ Middle /\ term.k = 10 => u_tx.state \in {"STOP", "IDLE"}
<1>1. PICK j \in 0 .. 9 : term.k = j + 1
  <2>1. term.k \in 1 .. 10
    BY DEF TermIn
  <2>2. term.k - 1 \in 0 .. 9 /\ term.k = (term.k - 1) + 1
    BY <2>1
  <2>3. QED
    BY <2>2
<1>2. /\ SUB \in Nat /\ SUB > 0 /\ CLKS_PER_BIT \in Nat /\ 4 <= CLKS_PER_BIT /\ term.t \in Nat /\ Lap \in Nat
      /\ line \in Lines /\ line.rate \in Nat /\ Free = 2 + 10 * CLKS_PER_BIT
  <2>1. line \in Lines
    BY Now
  <2>2. QED
    BY <2>1, BitTime, BitsLong, TxNow, LapRange, Now DEF Free
<1>3. 2 * term.k - 1 = 2 * j + 1 /\ j \in Nat /\ j + 1 \in Nat
  BY <1>1
<1> DEFINE b == (2 * j + 1) * line.rate
           c == j * CLKS_PER_BIT
           a == (j + 1) * CLKS_PER_BIT
<1>4. b \in Nat /\ c \in Nat /\ a \in Nat /\ a = c + CLKS_PER_BIT /\ c <= 9 * CLKS_PER_BIT
  <2>1. b \in Nat
    <3>1. 2 * j + 1 \in Nat
      BY <1>3
    <3>2. QED
      BY <1>2, <3>1, Scale
  <2>2. c \in Nat /\ a \in Nat /\ a = c + CLKS_PER_BIT
    BY <1>2, <1>3, Scale
  <2>3. c <= 9 * CLKS_PER_BIT
    BY <1>2, <1>3, ScaleMono
  <2>4. QED
    BY <2>1, <2>2, <2>3
<1>5. 2 * c * SUB <= b /\ b <= 2 * (a - 2) * SUB
  <2>1. 2 * j * CLKS_PER_BIT * SUB <= (2 * j + 1) * line.rate
        /\ (2 * j + 1) * line.rate <= 2 * ((j + 1) * CLKS_PER_BIT - 2) * SUB
    BY <1>2, Sampling
  <2>2. 2 * j * CLKS_PER_BIT = 2 * c
    BY <1>2, <1>3
  <2>3. QED
    BY <2>1, <2>2
<1>6. term.t + 4 * SUB = Lap * SUB /\ 2 * term.t < b + 2 * SUB
  BY <1>3 DEF TermIn
<1>7. Middle <=> b <= 2 * term.t
  <2>1. Middle <=> 2 * term.t >= b
    BY <1>3 DEF Middle
  <2> HIDE DEF b
  <2>2. QED
    BY <1>2, <1>4, <2>1
<1>8. 2 <= a /\ a <= 10 * CLKS_PER_BIT
  <2> HIDE DEF a, c
  <2>1. QED
    BY <1>2, <1>4
<1> DEFINE f == 2 * (a - 2) * SUB
<1>9. f \in Nat
  <2>1. 2 * (a - 2) \in Nat
    <3> HIDE DEF a, c
    <3>1. QED
      BY <1>4, <1>8
  <2>2. QED
    BY <1>2, <2>1, Scale
<1>10. Lap < a + 3
  <2>1. 2 * term.t < f + 2 * SUB
    <3> HIDE DEF a, b, c, f
    <3>1. b <= f
      BY <1>5 DEF f
    <3>2. QED
      BY <1>2, <1>4, <1>6, <1>9, <3>1
  <2> HIDE DEF a, b, c
  <2>2. 2 * Lap < 2 * a + 4 + 2
    BY <1>2, <1>4, <1>6, <1>8, <2>1, NotAfter
  <2>3. QED
    BY <1>2, <1>4, <2>2
<1>11. ~Middle => Lap < a + 2
  <2>1. SUFFICES ASSUME ~Middle PROVE Lap < a + 2
    OBVIOUS
  <2>2. 2 * term.t < f + 0 * SUB
    <3> HIDE DEF a, b, c, f
    <3>1. b <= f
      BY <1>5 DEF f
    <3>2. 2 * term.t < b
      BY <1>2, <1>4, <1>7, <2>1
    <3>3. 2 * term.t < f
      BY <1>2, <1>4, <1>9, <3>1, <3>2
    <3>4. QED
      BY <1>2, <1>9, <3>3
  <2> HIDE DEF a, b, c
  <2>3. 0 \in Nat
    OBVIOUS
  <2>4. 2 * Lap < 2 * a + 4 + 0
    BY <1>2, <1>4, <1>6, <1>8, <2>2, <2>3, NotAfter
  <2>5. QED
    BY <1>2, <1>4, <2>4
<1>12. Middle => c + 4 <= Lap
  <2>1. SUFFICES ASSUME Middle PROVE c + 4 <= Lap
    OBVIOUS
  <2>2. 2 * c * SUB <= 2 * term.t
    <3> DEFINE g == 2 * c * SUB
    <3>1. g \in Nat
      <4>1. 2 * c \in Nat
        BY <1>4
      <4>2. QED
        BY <1>2, <4>1, Scale
    <3>2. g <= b /\ b <= 2 * term.t
      BY <1>5, <1>7, <2>1
    <3> HIDE DEF b, c, g
    <3>3. g <= 2 * term.t
      BY <1>2, <1>4, <3>1, <3>2
    <3>4. QED
      BY <3>3 DEF g
  <2> HIDE DEF a, b, c
  <2>3. QED
    BY <1>2, <1>4, <1>6, <2>2, NotBefore
<1>13. ASSUME Middle PROVE u_tx.tx = FrameBit(u_tx.shreg, term.k - 1)
  <2>1. ~tx_start /\ 3 <= Lap /\ (u_tx.state = "IDLE" => u_tx.tx = 1)
    BY <1>2 DEF TermIn
  <2>2. PICK n \in 0 .. 9 : /\ n * CLKS_PER_BIT <= Lap - 3 /\ Lap - 3 < (n + 1) * CLKS_PER_BIT
                            /\ u_tx.tx = FrameBit(u_tx.shreg, n)
    BY <2>1, TxShown
  <2>3. c <= Lap - 3 /\ Lap - 3 < a /\ Lap - 3 \in Nat
    <3> HIDE DEF a, b, c
    <3>1. QED
      BY <1>2, <1>4, <1>10, <1>12, <1>13, <2>1
  <2>4. n = j
    <3>1. n \in Nat
      OBVIOUS
    <3>2. QED
      BY <1>2, <1>3, <2>2, <2>3, <3>1, OneBit
  <2>5. term.k - 1 = j
    BY <1>1
  <2>6. QED
    BY <2>2, <2>4, <2>5
<1>14. ~Middle \/ term.k # 10 => Lap < Free
  <2>1. term.k # 10 => a <= 9 * CLKS_PER_BIT
    <3>1. term.k # 10 => j + 1 <= 9
      BY <1>1
    <3>2. QED
      BY <1>2, <1>3, <3>1, ScaleMono
  <2> HIDE DEF a, b, c
  <2>2. QED
    BY <1>2, <1>4, <1>8, <1>10, <1>11, <2>1
<1>15. ASSUME Middle, term.k = 10 PROVE u_tx.state \in {"STOP", "IDLE"}
  <2>1. 9 * CLKS_PER_BIT + 4 <= Lap
    <3>1. j = 9
      BY <1>1, <1>15
    <3>2. QED
      BY <1>12, <1>15, <3>1
  <2>2. /\ LAST \in Nat /\ CLKS_PER_BIT = LAST + 1
        /\ u_tx.clk_cnt \in Nat /\ u_tx.clk_cnt <= LAST /\ u_tx.bit_idx \in Nat /\ u_tx.bit_idx <= 7
        /\ u_tx.state \in {"IDLE", "START", "DATA", "STOP"} /\ ~tx_start
    BY BitTime, TxNow DEF TermIn
  <2>3. u_tx.state # "START"
    <3>1. u_tx.state = "START" => Lap = 2 + u_tx.clk_cnt
      BY <2>2 DEF Lap
    <3> HIDE DEF a, b, c, f
    <3>2. QED
      BY <1>2, <2>1, <2>2, <3>1
  <2>4. u_tx.state # "DATA"
    <3> DEFINE p == u_tx.bit_idx * CLKS_PER_BIT
    <3>1. p \in Nat /\ p <= 7 * CLKS_PER_BIT
      BY <1>2, <2>2, Scale, ScaleMono
    <3>2. u_tx.state = "DATA" => Lap = 2 + CLKS_PER_BIT + p + u_tx.clk_cnt
      BY <2>2 DEF Lap
    <3> HIDE DEF p, a, b, c, f
    <3>3. QED
      BY <1>2, <2>1, <2>2, <3>1, <3>2
  <2>5. QED
    BY <2>2, <2>3, <2>4
<1>16. QED
  BY <1>13, <1>14, <1>15

\* Between the bytes.
TermAtRest == /\ term.k = 0 /\ due = <<>> /\ ~tx_start
              /\ u_tx.tx = 1 /\ u_tx.state \in {"IDLE", "STOP"}

\* uart_tx is given a byte, the host perhaps about to take the one before.
TermNextUp == /\ tx_start /\ u_tx.tx = 1
              /\ \/ term.k = 0 /\ due = <<tx_data>>
                 \/ term.k = 11 /\ due = <<term.bits, tx_data>>

\* The start bit has not shown yet, or the host has not seen it.
TermSoon == u_tx.state = "START" /\ u_tx.clk_cnt \in 0 .. 1 /\ term.k = 0 /\ due = <<u_tx.shreg>>

\* The host has the frame.
TermDone == /\ term.k = 11 /\ ~tx_start /\ due = <<u_tx.shreg>> /\ term.bits = u_tx.shreg
            /\ u_tx.tx = 1 /\ u_tx.state \in {"IDLE", "STOP"}

\* uart_tx's output had no value at first and the host took it for a start bit, or will.
TermMisled ==
  /\ ~tx_start /\ u_tx.state = "IDLE" /\ due = <<>>
  /\ u_rx.state \in {"IDLE", "START", "DATA"} /\ ~u_rx.valid
  /\ \/ term.k = 0 /\ u_tx.tx = 0 /\ host.pc = "idle" /\ u_rx.state = "IDLE"
     \/ /\ term.k = 1 /\ u_tx.tx = 1 /\ 2 * term.t < line.rate + 2 * SUB
        /\ host.pc = "send" => Since <= term.t + SUB

EchoPhase == TermAtRest \/ TermNextUp \/ TermSoon \/ TermIn \/ TermDone \/ TermMisled

LEMMA TxGoes ==
  ASSUME Ticks
  PROVE  /\ EchoOK /\ EchoOK' /\ Echo /\ uart_tx /\ TermNext /\ line' = line
         /\ tx_start' = Takes /\ (Takes => tx_data' = u_rx.data /\ u_tx.state = "IDLE" /\ ~tx_start)
         /\ ~tx_start => u_tx'.shreg = u_tx.shreg
         /\ u_tx'.state = "IDLE" => u_tx'.tx = 1
         /\ u_tx.state = "STOP" => u_tx'.state \in {"STOP", "IDLE"} /\ u_tx'.tx = 1
         /\ u_tx.state = "IDLE" => u_tx'.tx = 1
         /\ u_tx.state = "IDLE" /\ ~tx_start => u_tx'.state = "IDLE"
         /\ tx_start => u_tx'.state = "START" /\ u_tx'.clk_cnt = 0 /\ u_tx'.shreg = tx_data
         /\ u_tx.state = "START" /\ u_tx.clk_cnt # LAST => u_tx'.state = "START" /\ u_tx'.clk_cnt = u_tx.clk_cnt + 1
<1>1. EchoOK /\ EchoOK' /\ Echo /\ uart_tx /\ TermNext /\ line' = line /\ EchoTypes
  BY DEF Ticks, EchoOK
<1>2. tx_start' = Takes /\ (Takes => tx_data' = u_rx.data /\ u_tx.state = "IDLE" /\ ~tx_start)
  BY <1>1, TxNow DEF Echo, Takes
<1>3. tx_start => u_tx.state = "IDLE"
  BY <1>1, TxNow
<1>4. QED
  BY <1>1, <1>2, <1>3, TxStep DEF TxIs

LEMMA DueRest ==
  ASSUME Ticks, CLKS_PER_BIT <= line.gap => InTime, term.k # 11
  PROVE  due' = IF Takes THEN Append(due, u_rx.data) ELSE due
BY DueIs

LEMMA DueTaken ==
  ASSUME Ticks, CLKS_PER_BIT <= line.gap => InTime, term.k = 11
  PROVE  due' = IF Takes THEN Append(Drop1(due), u_rx.data) ELSE Drop1(due)
BY DueIs

LEMMA TermMoves ==
  ASSUME Ticks
  PROVE  /\ term.k = 0 /\ u_tx.tx = 1 => term' = term
         /\ term.k = 0 /\ u_tx.tx = 0 => term' = [k |-> 1, t |-> 0, bits |-> Blank]
         /\ term.k \in 1 .. 10 /\ ~Middle => term' = [term EXCEPT !.t = @ + SUB]
         /\ term.k \in 1 .. 10 /\ Middle => TermSamples
         /\ term.k = 11 => term' = Resting
  BY TxGoes DEF TermNext, TermIdles, TermFalls, TermWaits, TermSamples, TermTakes

LEMMA TermAtRestStep ==
  ASSUME Ticks, CLKS_PER_BIT <= line.gap => InTime, TermAtRest
  PROVE  EchoPhase'
<1>1. term' = term /\ term.k = 0 /\ due = <<>> /\ u_tx'.tx = 1 /\ ~tx_start
  BY TermMoves, TxGoes DEF TermAtRest
<1>2. due' = IF Takes THEN Append(<<>>, u_rx.data) ELSE <<>>
  BY <1>1, DueRest
<1>3. CASE Takes
  <2>1. due' = <<u_rx.data>>
    BY <1>2, <1>3, Pairs
  <2>2. TermNextUp'
    BY <1>1, <1>3, <2>1, TxGoes DEF TermNextUp
  <2>3. QED
    BY <2>2 DEF EchoPhase
<1>4. CASE ~Takes
  <2>1. TermAtRest'
    BY <1>1, <1>2, <1>4, TxGoes DEF TermAtRest
  <2>2. QED
    BY <2>1 DEF EchoPhase
<1>5. QED
  BY <1>3, <1>4

LEMMA TermDoneStep ==
  ASSUME Ticks, CLKS_PER_BIT <= line.gap => InTime, TermDone
  PROVE  EchoPhase'
<1>1. term' = Resting /\ term'.k = 0 /\ u_tx'.tx = 1 /\ ~tx_start
  BY TermMoves, TxGoes DEF TermDone, Resting
<1>2. due' = IF Takes THEN Append(Drop1(<<u_tx.shreg>>), u_rx.data) ELSE Drop1(<<u_tx.shreg>>)
  BY DueTaken DEF TermDone
<1>3. CASE Takes
  <2>1. due' = <<u_rx.data>>
    BY <1>2, <1>3, Pairs
  <2>2. TermNextUp'
    BY <1>1, <1>3, <2>1, TxGoes DEF TermNextUp
  <2>3. QED
    BY <2>2 DEF EchoPhase
<1>4. CASE ~Takes
  <2>1. due' = <<>>
    BY <1>2, <1>4, Pairs
  <2>2. u_tx'.state \in {"IDLE", "STOP"}
    BY <1>1, TxGoes DEF TermDone
  <2>3. TermAtRest'
    BY <1>1, <1>4, <2>1, <2>2, TxGoes DEF TermAtRest
  <2>4. QED
    BY <2>3 DEF EchoPhase
<1>5. QED
  BY <1>3, <1>4

LEMMA TermNextUpStep ==
  ASSUME Ticks, CLKS_PER_BIT <= line.gap => InTime, TermNextUp
  PROVE  EchoPhase'
<1>1. ~Takes /\ u_tx'.state = "START" /\ u_tx'.clk_cnt = 0 /\ u_tx'.shreg = tx_data
  BY TxGoes DEF TermNextUp
<1>2. 0 \in 0 .. 1
  OBVIOUS
<1>3. CASE term.k = 0 /\ due = <<tx_data>>
  <2>1. term' = term /\ due' = <<tx_data>>
    BY <1>1, <1>3, TermMoves, DueRest DEF TermNextUp
  <2>2. TermSoon'
    BY <1>1, <1>2, <1>3, <2>1 DEF TermSoon
  <2>3. QED
    BY <2>2 DEF EchoPhase
<1>4. CASE term.k = 11 /\ due = <<term.bits, tx_data>>
  <2>1. term'.k = 0
    BY <1>4, TermMoves DEF Resting
  <2>2. due' = Drop1(<<term.bits, tx_data>>)
    BY <1>1, <1>4, DueTaken
  <2>3. due' = <<tx_data>>
    <3>1. <<term.bits, tx_data>> = <<term.bits>> \o <<tx_data>>
      BY Doubles
    <3>2. Drop1(<<term.bits>> \o <<tx_data>>) = <<tx_data>>
      BY Pairs
    <3>3. QED
      BY <2>2, <3>1, <3>2, Zenon
  <2>4. TermSoon'
    BY <1>1, <1>2, <2>1, <2>3 DEF TermSoon
  <2>5. QED
    BY <2>4 DEF EchoPhase
<1>5. QED
  BY <1>3, <1>4 DEF TermNextUp

LEMMA TermSoonStep ==
  ASSUME Ticks, TxOut, CLKS_PER_BIT <= line.gap => InTime, TermSoon
  PROVE  EchoPhase'
<1>1. EchoOK /\ line \in Lines /\ LAST \in Nat /\ CLKS_PER_BIT = LAST + 1 /\ 4 <= CLKS_PER_BIT
      /\ SUB \in Nat /\ SUB > 0 /\ line.rate \in Nat /\ line.rate > 0
  <2>1. EchoOK /\ line \in Lines
    BY TxGoes, Now
  <2>2. QED
    BY <2>1, BitTime, BitsLong, Now
<1>2. u_tx.state = "START" /\ term.k = 0 /\ due = <<u_tx.shreg>> /\ ~tx_start /\ ~Takes
      /\ (u_tx.clk_cnt = 0 \/ u_tx.clk_cnt = 1)
  <2>1. u_tx.clk_cnt \in 0 .. 1
    BY DEF TermSoon
  <2>2. u_tx.clk_cnt = 0 \/ u_tx.clk_cnt = 1
    BY <2>1
  <2>3. QED
    BY <1>1, <2>2, TxNow DEF TermSoon, Takes
<1>3. u_tx'.state = "START" /\ u_tx'.clk_cnt = u_tx.clk_cnt + 1 /\ u_tx'.shreg = u_tx.shreg
      /\ due' = <<u_tx.shreg>> /\ ~tx_start'
  <2>1. u_tx.clk_cnt # LAST
    BY <1>1, <1>2
  <2>2. due' = due
    BY <1>2, DueRest
  <2>3. QED
    BY <1>2, <2>1, <2>2, TxGoes
<1>4. CASE u_tx.clk_cnt = 0
  <2>1. u_tx.tx = 1
    BY <1>2, <1>4 DEF TxOut
  <2>2. term' = term
    BY <1>2, <2>1, TermMoves
  <2>3. u_tx'.clk_cnt \in 0 .. 1
    BY <1>3, <1>4
  <2>4. TermSoon'
    BY <1>2, <1>3, <2>2, <2>3 DEF TermSoon
  <2>5. QED
    BY <2>4 DEF EchoPhase
<1>5. CASE u_tx.clk_cnt = 1
  <2>1. u_tx.tx = 0
    BY <1>2, <1>5 DEF TxOut
  <2>2. term' = [k |-> 1, t |-> 0, bits |-> Blank]
    BY <1>2, <2>1, TermMoves
  <2>3. term'.k = 1 /\ term'.t = 0 /\ 1 \in 1 .. 10
    BY <2>2
  <2>4. u_tx'.clk_cnt = 2
    BY <1>3, <1>5
  <2>5. Lap' = 4
    <3>1. Lap' = 2 + 2
      BY <1>3, <2>4 DEF Lap
    <3>2. QED
      BY <3>1
  <2>6. term'.t + 4 * SUB = Lap' * SUB /\ 4 <= Lap'
    BY <1>1, <2>3, <2>5
  <2>7. 2 * term'.t < (2 * term'.k - 1) * line'.rate + 2 * SUB
    <3>1. (2 * 1 - 1) * line.rate = line.rate /\ 2 * 0 = 0
      BY <1>1
    <3>2. 0 < line.rate + 2 * SUB
      BY <1>1
    <3>3. QED
      BY <2>3, <3>1, <3>2, TxGoes
  <2>8. \A i \in 0 .. 7 : ~(i + 2 < term'.k)
    BY <2>3
  <2>9. TermIn'
    BY <1>3, <2>3, <2>6, <2>7, <2>8 DEF TermIn
  <2>10. QED
    BY <2>9 DEF EchoPhase
<1>6. QED
  BY <1>2, <1>4, <1>5

LEMMA TermInStep ==
  ASSUME Ticks, TxOut, CLKS_PER_BIT <= line.gap => InTime, TermIn
  PROVE  EchoPhase'
<1>1. EchoOK /\ EchoOK' /\ SUB \in Nat /\ SUB > 0 /\ line.rate \in Nat /\ 3 * SUB <= line.rate /\ line' = line
      /\ Lap \in Nat /\ term.t \in Nat /\ term.bits \in Byte8 /\ u_tx.shreg \in Byte8
  <2>1. EchoOK /\ EchoOK' /\ line' = line
    BY TxGoes
  <2>2. QED
    BY <2>1, BitTime, Now, TxNow, LapRange
<1>2. term.k \in 1 .. 10 /\ ~tx_start /\ due = <<u_tx.shreg>> /\ u_tx'.shreg = u_tx.shreg /\ term.k # 11
  <2>1. term.k \in 1 .. 10
    BY DEF TermIn
  <2>2. term.k # 11
    BY <2>1
  <2>3. QED
    BY <2>1, <2>2, TxGoes DEF TermIn
<1>3. due' = IF Takes THEN Append(<<u_tx.shreg>>, u_rx.data) ELSE <<u_tx.shreg>>
  BY <1>2, DueRest
<1>4. CASE ~Middle \/ term.k # 10
  <2>1. Lap < Free /\ ~Takes
    <3>1. Lap < Free
      BY <1>1, <1>4, TermSees
    <3>2. Lap # Free
      BY <1>1, <3>1, LapRange
    <3>3. QED
      BY <1>1, <3>1, <3>2, LapRange, TxGoes
  <2>2. Lap' = Lap + 1 /\ due' = <<u_tx'.shreg>> /\ ~tx_start'
    BY <1>1, <1>2, <1>3, <2>1, LapStep, TxGoes
  <2>3. 4 <= Lap'
    BY <1>1, <2>2 DEF TermIn
  <2>4. ASSUME term'.t = term.t + SUB PROVE term'.t + 4 * SUB = Lap' * SUB
    <3>1. (Lap + 1) * SUB = Lap * SUB + SUB /\ Lap * SUB \in Nat /\ term.t + 4 * SUB = Lap * SUB
      BY <1>1, Scale DEF TermIn
    <3> DEFINE p == Lap * SUB
    <3>2. (Lap + 1) * SUB = p + SUB /\ p \in Nat /\ term.t + 4 * SUB = p
      BY <3>1
    <3> HIDE DEF p
    <3>3. QED
      BY <1>1, <2>2, <2>4, <3>2
  <2>5. CASE ~Middle
    <3>1. term'.k = term.k /\ term'.t = term.t + SUB /\ term'.bits = term.bits
      <4>1. term' = [term EXCEPT !.t = @ + SUB]
        BY <1>2, <2>5, TermMoves
      <4>2. term \in [k : 0 .. 11, t : Nat, bits : [0 .. 7 -> Bit]]
        BY <1>1 DEF EchoOK, EchoTypes
      <4>3. QED
        BY <4>1, <4>2
    <3>2. 2 * term'.t < (2 * term'.k - 1) * line'.rate + 2 * SUB
      <4> DEFINE b == (2 * term.k - 1) * line.rate
      <4>1. b \in Int
        BY <1>1, <1>2
      <4>2. 2 * term.t < b
        <5>1. ~(2 * term.t >= b)
          BY <2>5 DEF Middle
        <5> HIDE DEF b
        <5>2. QED
          BY <1>1, <4>1, <5>1
      <4> HIDE DEF b
      <4>3. 2 * (term.t + SUB) < b + 2 * SUB
        BY <1>1, <4>1, <4>2
      <4>4. QED
        BY <1>1, <3>1, <4>3 DEF b
    <3>3. TermIn'
      BY <1>2, <2>2, <2>3, <2>4, <3>1, <3>2, TxGoes DEF TermIn
    <3>4. QED
      BY <3>3 DEF EchoPhase
  <2>6. CASE Middle /\ term.k # 10
    <3>1. PICK k \in 1 .. 9 : k = term.k
      BY <1>2, <2>6
    <3>2. u_tx.tx = FrameBit(u_tx.shreg, k - 1)
      BY <1>1, <2>6, <3>1, TermSees
    <3>3. /\ term'.k = k + 1 /\ term'.t = term.t + SUB
          /\ \A i \in 0 .. 7 : i + 2 < k => term'.bits[i] = term.bits[i]
          /\ k # 1 => term'.bits[k - 2] = u_tx.shreg[k - 2]
      <4>1. term \in [k : 0 .. 11, t : Nat, bits : [0 .. 7 -> Bit]]
        BY <1>1 DEF EchoOK, EchoTypes
      <4>2. TermSamples
        BY <1>2, <2>6, TermMoves
      <4>3. CASE k = 1
        <5>1. u_tx.tx = 0
          BY <3>2, <4>3 DEF FrameBit
        <5>2. term' = [term EXCEPT !.k = 2, !.t = @ + SUB]
          BY <3>1, <4>2, <4>3, <5>1 DEF TermSamples
        <5>3. QED
          BY <4>1, <4>3, <5>2
      <4>4. CASE k # 1
        <5>1. term' = [term EXCEPT !.k = @ + 1, !.t = @ + SUB, !.bits[term.k - 2] = u_tx.tx]
          BY <3>1, <4>2, <4>4 DEF TermSamples
        <5>2. k - 2 \in 0 .. 7 /\ k - 1 # 0 /\ k - 1 # 9 /\ (k - 1) - 1 = k - 2
          BY <4>4
        <5>3. u_tx.tx = u_tx.shreg[k - 2]
          BY <3>2, <5>2 DEF FrameBit
        <5>4. term'.k = k + 1 /\ term'.t = term.t + SUB
              /\ term'.bits = [term.bits EXCEPT ![k - 2] = u_tx.tx]
          BY <3>1, <4>1, <5>1
        <5>5. DOMAIN term.bits = 0 .. 7
          BY <1>1 DEF Byte8
        <5>6. term'.bits[k - 2] = u_tx.tx
          BY <5>2, <5>4, <5>5
        <5>7. ASSUME NEW i \in 0 .. 7, i + 2 < k PROVE term'.bits[i] = term.bits[i]
          <6>1. i # k - 2
            BY <5>7
          <6>2. QED
            BY <5>4, <5>5, <6>1
        <5>8. QED
          BY <5>3, <5>4, <5>6, <5>7
      <4>5. QED
        BY <4>3, <4>4
    <3>4. k + 1 \in 1 .. 10
      OBVIOUS
    <3>5. 2 * term'.t < (2 * term'.k - 1) * line'.rate + 2 * SUB
      <4> DEFINE b == (2 * k - 1) * line.rate
      <4>1. b \in Int /\ (2 * (k + 1) - 1) * line.rate = b + 2 * line.rate
        BY <1>1
      <4>2. 2 * term.t < b + 2 * SUB
        BY <3>1 DEF TermIn
      <4> HIDE DEF b
      <4>3. 2 * (term.t + SUB) < (b + 2 * line.rate) + 2 * SUB
        BY <1>1, <4>1, <4>2
      <4>4. QED
        BY <1>1, <3>3, <4>1, <4>3
    <3>6. \A i \in 0 .. 7 : i + 2 < term'.k => term'.bits[i] = u_tx'.shreg[i]
      <4>1. SUFFICES ASSUME NEW i \in 0 .. 7, i + 2 < k + 1 PROVE term'.bits[i] = u_tx.shreg[i]
        BY <1>2, <3>3
      <4>2. CASE i + 2 < k
        BY <3>1, <3>3, <4>2 DEF TermIn
      <4>3. CASE i + 2 = k
        <5>1. k # 1 /\ k - 2 = i
          BY <4>3
        <5>2. QED
          BY <3>3, <5>1
      <4>4. QED
        BY <4>1, <4>2, <4>3
    <3>7. TermIn'
      BY <2>2, <2>3, <2>4, <3>3, <3>4, <3>5, <3>6, TxGoes DEF TermIn
    <3>8. QED
      BY <3>7 DEF EchoPhase
  <2>7. QED
    BY <1>4, <2>5, <2>6
<1>5. CASE Middle /\ term.k = 10
  <2>1. u_tx.tx = 1
    <3>1. u_tx.tx = FrameBit(u_tx.shreg, 10 - 1)
      BY <1>1, <1>5, TermSees
    <3>2. 10 - 1 = 9
      OBVIOUS
    <3>3. QED
      BY <3>1, <3>2 DEF FrameBit
  <2>2. term'.k = 11 /\ term'.bits = term.bits
    <3>1. term' = [term EXCEPT !.k = 11]
      BY <1>2, <1>5, <2>1, TermMoves DEF TermSamples
    <3>2. term \in [k : 0 .. 11, t : Nat, bits : [0 .. 7 -> Bit]]
      BY <1>1 DEF EchoOK, EchoTypes
    <3>3. QED
      BY <3>1, <3>2
  <2>3. term.bits = u_tx.shreg
    <3>1. \A i \in 0 .. 7 : term.bits[i] = u_tx.shreg[i]
      BY <1>5 DEF TermIn
    <3>2. QED
      BY <1>1, <3>1 DEF Byte8
  <2>4. u_tx.state \in {"STOP", "IDLE"}
    BY <1>1, <1>5, TermSees
  <2>5. u_tx'.tx = 1
    BY <2>4, TxGoes
  <2>6. CASE Takes
    <3>1. due' = <<u_tx.shreg, u_rx.data>>
      BY <1>3, <2>6, Doubles
    <3>2. TermNextUp'
      BY <2>2, <2>3, <2>5, <2>6, <3>1, TxGoes DEF TermNextUp
    <3>3. QED
      BY <3>2 DEF EchoPhase
  <2>7. CASE ~Takes
    <3>1. u_tx'.state \in {"IDLE", "STOP"}
      BY <1>2, <2>4, TxGoes
    <3>2. TermDone'
      BY <1>2, <1>3, <2>2, <2>3, <2>5, <2>7, <3>1, TxGoes DEF TermDone
    <3>3. QED
      BY <3>2 DEF EchoPhase
  <2>8. QED
    BY <2>6, <2>7
<1>6. QED
  BY <1>4, <1>5

LEMMA TermMisledStep ==
  ASSUME Ticks, Phase, CLKS_PER_BIT <= line.gap => InTime, TermMisled
  PROVE  EchoPhase'
<1>1. /\ EchoOK /\ EchoOK' /\ line \in Lines /\ line.rate \in Nat /\ line.rate > 0 /\ SUB \in Nat /\ SUB > 0
      /\ HALF \in Nat /\ CLKS_PER_BIT \in Nat /\ 4 <= CLKS_PER_BIT /\ LAST \in Nat /\ CLKS_PER_BIT = LAST + 1
      /\ term.t \in Nat /\ host'.t \in Nat /\ Since \in Nat /\ line' = line
  <2>1. EchoOK /\ EchoOK' /\ line' = line
    BY TxGoes
  <2>2. line \in Lines /\ line.rate \in Nat /\ line.rate > 0 /\ Since \in Nat /\ term.t \in Nat
    BY <2>1, Now, TxNow
  <2>3. host'.t \in Nat
    BY <2>1 DEF EchoOK, EchoTypes
  <2>4. QED
    BY <2>1, <2>2, <2>3, BitTime, BitsLong
<1>2. /\ ~tx_start' /\ u_tx'.state = "IDLE" /\ u_tx'.tx = 1 /\ due' = <<>> /\ ~u_rx.valid
      /\ (term.k = 0 \/ term.k = 1)
  <2>1. ~Takes /\ term.k # 11
    BY DEF Takes, TermMisled
  <2>2. QED
    BY <2>1, DueRest, TxGoes DEF TermMisled
<1>3. TermAtRest' \/ term'.k = 1
  <2>1. CASE term.k = 0
    <3>1. u_tx.tx = 0
      BY <2>1 DEF TermMisled
    <3>2. term'.k = 1
      BY <2>1, <3>1, TermMoves
    <3>3. QED
      BY <3>2
  <2>2. CASE term.k = 1 /\ Middle
    <3>1. TermSamples /\ u_tx.tx = 1
      BY <2>2, TermMoves DEF TermMisled
    <3>2. term' = Resting
      BY <2>2, <3>1 DEF TermSamples
    <3>3. TermAtRest'
      BY <1>2, <3>2 DEF TermAtRest, Resting
    <3>4. QED
      BY <3>3
  <2>3. CASE term.k = 1 /\ ~Middle
    <3>1. term' = [term EXCEPT !.t = @ + SUB]
      BY <2>3, TermMoves
    <3>2. term \in [k : 0 .. 11, t : Nat, bits : [0 .. 7 -> Bit]]
      BY <1>1 DEF EchoOK, EchoTypes
    <3>3. QED
      BY <2>3, <3>1, <3>2
  <2>4. QED
    BY <1>2, <2>1, <2>2, <2>3
\* A frame the host began since is not yet at its stop bit.
<1>4. u_rx'.state \in {"IDLE", "START", "DATA"} /\ ~u_rx'.valid
  <2>1. CASE u_rx.state # "DATA"
    BY <2>1, RxNow DEF TermMisled
  <2>2. CASE u_rx.state = "DATA"
    <3>1. host.pc = "send" /\ SendIn /\ term.k = 1
      BY <1>1, <2>2, Now DEF Phase, InIdle, InGlitch, SendEarly, SendPast, Ending, TermMisled
    <3>2. Since <= term.t + SUB /\ 2 * term.t < line.rate + 2 * SUB
      BY <3>1 DEF TermMisled
    <3>3. Age(u_rx) * SUB <= Since
      BY <3>1 DEF SendIn
    <3>4. line.rate <= (HALF + 1 + CLKS_PER_BIT) * SUB
      <4>1. 1 * line.rate <= (HALF + 1 + 1 * CLKS_PER_BIT) * SUB
        BY <1>1, Sampling
      <4>2. 1 * line.rate = line.rate /\ 1 * CLKS_PER_BIT = CLKS_PER_BIT
        BY <1>1
      <4>3. QED
        BY <4>1, <4>2
    <3>5. ~(u_rx.clk_cnt = LAST /\ u_rx.bit_idx = 7)
      <4>1. SUFFICES ASSUME u_rx.clk_cnt = LAST, u_rx.bit_idx = 7 PROVE FALSE
        OBVIOUS
      <4>2. Age(u_rx) = 4 + HALF + 7 * CLKS_PER_BIT + LAST
        BY <2>2, <4>1 DEF Age
      <4>3. PICK a \in Nat : a = Age(u_rx) /\ a = 3 + HALF + 8 * CLKS_PER_BIT
        BY <1>1, <4>2
      <4>4. (2 * a) * SUB < (HALF + 5 + CLKS_PER_BIT) * SUB
        <5> DEFINE p == a * SUB
                   h == HALF * SUB
                   c == CLKS_PER_BIT * SUB
        <5>1. p \in Nat /\ h \in Nat /\ c \in Nat /\ (2 * a) * SUB = 2 * p
              /\ (HALF + 5 + CLKS_PER_BIT) * SUB = h + 5 * SUB + c
              /\ (HALF + 1 + CLKS_PER_BIT) * SUB = h + SUB + c
          BY <1>1
        <5>2. p <= Since /\ line.rate <= h + SUB + c
          BY <3>3, <3>4, <4>3, <5>1
        <5> HIDE DEF p, h, c
        <5>3. 2 * p < h + 5 * SUB + c
          BY <1>1, <3>2, <5>1, <5>2
        <5>4. QED
          BY <5>1, <5>3
      <4>5. 2 * a < HALF + 5 + CLKS_PER_BIT
        <5>1. 2 * a \in Nat /\ HALF + 5 + CLKS_PER_BIT \in Nat
          BY <1>1
        <5>2. QED
          BY <1>1, <4>4, <5>1, ScaleCancel
      <4>6. QED
        BY <1>1, <4>3, <4>5
    <3>6. u_rx.clk_cnt \in Nat /\ u_rx.clk_cnt <= LAST /\ u_rx.bit_idx \in Nat /\ u_rx.bit_idx <= 7
      <4>1. u_rx.clk_cnt \in 0 .. LAST /\ u_rx.bit_idx \in 0 .. 7
        BY <1>1, Now
      <4>2. QED
        BY <1>1, <4>1
    <3>7. u_rx'.state = "DATA" /\ ~u_rx'.valid
      BY <1>1, <2>2, <3>5, <3>6, RxNow
    <3>8. QED
      BY <3>7
  <2>3. QED
    BY <2>1, <2>2
<1>5. ASSUME term'.k = 1 PROVE TermMisled'
  <2>1. term'.k = 1 /\ 2 * term'.t < line.rate + 2 * SUB
        /\ (term.k = 0 => term'.t = 0 /\ host.pc = "idle")
        /\ (term.k = 1 => term'.t = term.t + SUB)
    <3>1. CASE term.k = 0
      <4>1. u_tx.tx = 0 /\ host.pc = "idle"
        BY <3>1 DEF TermMisled
      <4>2. term'.t = 0
        BY <3>1, <4>1, TermMoves
      <4>3. QED
        BY <1>1, <1>5, <3>1, <4>1, <4>2
    <3>2. CASE term.k = 1
      <4>1. ~Middle
        <5>1. SUFFICES ASSUME Middle PROVE FALSE
          OBVIOUS
        <5>2. TermSamples /\ u_tx.tx = 1
          BY <3>2, <5>1, TermMoves DEF TermMisled
        <5>3. term' = Resting
          BY <3>2, <5>2 DEF TermSamples
        <5>4. QED
          BY <1>5, <5>3 DEF Resting
      <4>2. term' = [term EXCEPT !.t = @ + SUB]
        BY <3>2, <4>1, TermMoves
      <4>3. term \in [k : 0 .. 11, t : Nat, bits : [0 .. 7 -> Bit]]
        BY <1>1 DEF EchoOK, EchoTypes
      <4>4. term'.t = term.t + SUB
        BY <4>2, <4>3
      <4>5. ~(2 * term.t >= (2 * 1 - 1) * line.rate)
        BY <3>2, <4>1 DEF Middle
      <4>6. (2 * 1 - 1) * line.rate = line.rate
        BY <1>1
      <4>7. 2 * (term.t + SUB) < line.rate + 2 * SUB
        BY <1>1, <4>5, <4>6
      <4>8. QED
        BY <1>5, <3>2, <4>4, <4>7
    <3>3. QED
      BY <1>2, <3>1, <3>2
  <2>2. term'.t \in Nat
    BY <1>1 DEF EchoOK, EchoTypes
  <2>3. host'.pc = "send" => Since' <= term'.t + SUB
    <3>1. SUFFICES ASSUME host'.pc = "send" PROVE Since' <= term'.t + SUB
      OBVIOUS
    <3>2. CASE FrameGoes /\ host.pc = "send"
      <4>1. term.k = 1
        BY <1>2, <2>1, <3>2
      <4>2. Since <= term.t + SUB
        BY <3>2, <4>1 DEF TermMisled
      <4>3. Since' = Since + SUB
        BY <3>2 DEF FrameGoes
      <4>4. QED
        BY <1>1, <2>1, <4>1, <4>2, <4>3
    <3>3. CASE host'.k = 0 /\ host'.t < SUB
      <4>1. Since' = host'.t
        <5>1. Since' = host'.k * line'.rate + host'.t
          BY DEF Since
        <5>2. 0 * line.rate = 0
          BY <1>1
        <5>3. QED
          BY <1>1, <3>3, <5>1, <5>2
      <4>2. QED
        BY <1>1, <2>2, <3>3, <4>1
    <3>4. (FrameGoes /\ host.pc = "send") \/ (host'.k = 0 /\ host'.t < SUB)
      <4>1. host.pc \in {"idle", "send", "glitch"}
        BY <1>1, Now
      <4>2. CASE host.pc = "send"
        BY <3>1, <4>2, SendMoves DEF FrameOver, FrameNext
      <4>3. CASE host.pc = "idle"
        BY <3>1, <4>3, IdleMoves
      <4>4. CASE host.pc = "glitch"
        BY <3>1, <4>4, GlitchMoves
      <4>5. QED
        BY <4>1, <4>2, <4>3, <4>4
    <3>5. QED
      BY <3>2, <3>3, <3>4
  <2>4. QED
    BY <1>1, <1>2, <1>4, <2>1, <2>3 DEF TermMisled
<1>6. QED
  BY <1>3, <1>5 DEF EchoPhase

\* In step with the receivers of both ends.
EchoInv ==
  /\ TxOut
  /\ calm \/ AtRest => /\ CLKS_PER_BIT <= line.gap => InTime
                       /\ EchoPhase

LEMMA EchoRests == EchoOK /\ AtRest /\ due = <<>> => InTime /\ EchoPhase
<1> SUFFICES ASSUME EchoOK, AtRest, due = <<>> PROVE InTime /\ EchoPhase
  OBVIOUS
<1>1. InTime
  BY InTimeQuiet DEF AtRest, NoneInHand
<1>2. TermAtRest
  BY DEF AtRest, TermAtRest
<1>3. QED
  BY <1>1, <1>2 DEF EchoPhase

LEMMA EchoInvStep ==
  ASSUME EchoOK, EchoOK', RxInv, RxInv', EchoInv, [EchoNext]_echoVars
  PROVE  EchoInv'
<1>1. CASE UNCHANGED echoVars
  BY <1>1 DEF echoVars, EchoInv, TxOut, AtRest, InTime, DoneIn, Free, Turn, Lap, NoneInHand, SendEarly, SendIn,
              SendPast, Left, Ending, Since, Age, FrameBit, EchoPhase, TermAtRest, TermNextUp, TermSoon, TermIn,
              TermDone, TermMisled
<1>2. ASSUME NEW rst \in BOOLEAN, Clock(rst) PROVE EchoInv'
  <2>1. TxOut'
    <3>1. CASE rst
      <4>1. u_tx'.state = "IDLE"
        BY <1>2, <3>1 DEF Clock, Reset
      <4>2. QED
        BY <4>1 DEF TxOut
    <3>2. CASE ~rst
      BY <1>2, <3>2, TxOutStep DEF Clock, EchoInv
    <3>3. QED
      BY <3>1, <3>2
  <2>2. CASE ~calm'
    <3>1. due' = <<>>
      BY <2>2 DEF RxInv
    <3>2. (EchoOK /\ AtRest /\ due = <<>> => InTime /\ EchoPhase)'
      BY EchoRests, PTL
    <3>3. QED
      BY <2>1, <2>2, <3>1, <3>2 DEF EchoInv
  <2>3. CASE calm'
    <3>1. Ticks /\ (calm \/ AtRest)
      BY <1>2, <2>3 DEF Clock, History, Ticks
    <3>2. Synced /\ Phase /\ TxOut /\ (CLKS_PER_BIT <= line.gap => InTime) /\ EchoPhase
      BY <3>1 DEF RxInv, EchoInv
    <3>3. Phase'
      BY <2>3 DEF RxInv
    <3>4. line' = line
      BY <3>1 DEF Ticks
    <3>5. CLKS_PER_BIT <= line'.gap => InTime'
      BY <3>1, <3>2, <3>3, <3>4, InTimeStep
    <3>6. EchoPhase'
      BY <3>1, <3>2, TermAtRestStep, TermNextUpStep, TermSoonStep, TermInStep, TermDoneStep, TermMisledStep
         DEF EchoPhase
    <3>7. QED
      BY <2>1, <3>5, <3>6 DEF EchoInv
  <2>4. QED
    BY <2>2, <2>3
<1>3. QED
  BY <1>1, <1>2 DEF EchoNext

LEMMA EchoInvInit == EchoInit => EchoInv
<1> SUFFICES ASSUME EchoInit PROVE EchoInv
  OBVIOUS
<1>1. EchoOK
  BY RxInvInit
<1>2. /\ host.pc = "idle" /\ u_rx.state = "IDLE" /\ ~u_rx.valid /\ ~tx_start /\ u_tx.state = "IDLE"
      /\ due = <<>> /\ term.k = 0
  BY DEF EchoInit
<1>3. InTime
  BY <1>1, <1>2, InTimeQuiet DEF NoneInHand
<1>4. u_tx.tx = 0 \/ u_tx.tx = 1
  BY <1>1, TxNow
<1>5. TermAtRest \/ TermMisled
  BY <1>2, <1>4 DEF TermAtRest, TermMisled
<1>6. TxOut
  BY <1>2 DEF TxOut
<1>7. QED
  BY <1>3, <1>5, <1>6 DEF EchoInv, EchoPhase

LEMMA EchoesNow ==
  ASSUME EchoOK, EchoInv
  PROVE  EchoesAll
<1>1. SUFFICES ASSUME calm
               PROVE  /\ term.k = 11 => due # <<>> /\ term.bits = due[1]
                      /\ AtRest => due = <<>>
  BY DEF EchoesAll
<1>2. EchoPhase
  BY <1>1 DEF EchoInv
<1>3. ASSUME term.k = 11 PROVE due # <<>> /\ term.bits = due[1]
  <2>1. TermNextUp \/ TermDone
    <3>1. ~TermAtRest /\ ~TermSoon /\ ~TermIn /\ ~TermMisled
      BY <1>3 DEF TermAtRest, TermSoon, TermIn, TermMisled
    <3>2. QED
      BY <1>2, <3>1 DEF EchoPhase
  <2>2. due = <<term.bits, tx_data>> \/ due = <<term.bits>>
    BY <1>3, <2>1 DEF TermNextUp, TermDone
  <2>3. QED
    BY <2>2
<1>4. ASSUME AtRest PROVE due = <<>>
  <2>1. ~TermNextUp /\ ~TermSoon /\ ~TermIn /\ ~TermDone
    BY <1>4 DEF AtRest, TermNextUp, TermSoon, TermIn, TermDone
  <2>2. QED
    BY <1>2, <2>1 DEF EchoPhase, TermAtRest, TermMisled
<1>5. QED
  BY <1>3, <1>4

\* With a second stop bit between bytes the echo drops none, and what it takes reaches the
\* host as it was, once and in order, by the host's clock: for every bit length and every host
\* whose bits TimingOK admits.  What a reset upsets is over when everything has been at rest.
THEOREM EchoesAllTheorem == EchoSpec => []EchoesAll
<1>1. EchoInit => EchoOK /\ RxInv /\ EchoInv
  BY RxInvInit, EchoInvInit
<1>2. EchoOK /\ RxInv /\ EchoInv /\ [EchoNext]_echoVars => (EchoOK /\ RxInv /\ EchoInv)'
  BY EchoOKStep, RxInvStep, EchoInvStep
<1>3. EchoOK /\ EchoInv => EchoesAll
  BY EchoesNow
<1>4. QED
  BY <1>1, <1>2, <1>3, PTL DEF EchoSpec
=============================================================================

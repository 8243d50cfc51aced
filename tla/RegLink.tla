------------------------------ MODULE RegLink ------------------------------
(***************************************************************************)
(* What the register port of an injector promises its host: commands take  *)
(* effect whole, once each and in the order they were sent; a write is     *)
(* announced to the top-level by exactly one strobe; a read is answered by *)
(* one byte.  CtrlRegs shows that the byte protocol implements this.       *)
(***************************************************************************)
EXTENDS Naturals, Sequences

CONSTANTS
  NREGS,       \* number of registers
  Addrs,       \* the addresses the host names in its commands
  Payload,     \* the data bytes the host writes
  StatusVals   \* the bytes the status page may return

VARIABLES
  cmds,        \* commands sent by the host and not yet carried out
  regs,        \* the register file
  wr,          \* the write strobe: <<addr, data>> while asserted, else <<>>
  back         \* answers on their way to the host

linkVars == <<cmds, regs, wr, back>>

Reg == 0 .. NREGS - 1
WriteCmd(a, d) == [op |-> "W", addr |-> a, data |-> d]
ReadCmd(a)     == [op |-> "R", addr |-> a]
Cmd == [op : {"W"}, addr : Addrs, data : Payload] \cup [op : {"R"}, addr : Addrs]

\* What a read of address a may return when the file holds r.
ReadValues(r, a) == IF a >= 128 THEN StatusVals
                    ELSE IF a \in Reg THEN {r[a]} ELSE {0}

Init == /\ cmds = <<>>
        /\ regs = [r \in Reg |-> 0]
        /\ wr = <<>>
        /\ back = <<>>

Issue == \E c \in Cmd : cmds' = Append(cmds, c) /\ UNCHANGED <<regs, wr, back>>

ApplyWrite ==
  /\ cmds # <<>> /\ Head(cmds).op = "W" /\ wr = <<>>
  /\ cmds' = Tail(cmds)
  /\ regs' = IF Head(cmds).addr \in Reg
             THEN [regs EXCEPT ![Head(cmds).addr] = Head(cmds).data] ELSE regs
  /\ wr' = <<Head(cmds).addr, Head(cmds).data>>
  /\ UNCHANGED back

ApplyRead ==
  /\ cmds # <<>> /\ Head(cmds).op = "R"
  /\ cmds' = Tail(cmds)
  /\ \E v \in ReadValues(regs, Head(cmds).addr) : back' = Append(back, v)
  /\ UNCHANGED <<regs, wr>>

Deassert == wr # <<>> /\ wr' = <<>> /\ UNCHANGED <<cmds, regs, back>>
Receive  == back # <<>> /\ back' = Tail(back) /\ UNCHANGED <<cmds, regs, wr>>

Next == Issue \/ ApplyWrite \/ ApplyRead \/ Deassert \/ Receive

Spec == Init /\ [][Next]_linkVars
=============================================================================

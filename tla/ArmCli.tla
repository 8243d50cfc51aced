------------------------------- MODULE ArmCli -------------------------------
(***************************************************************************)
(* arm.py on the register port: one program at a time, each a script of    *)
(* register writes and reads, started by hand, stopped by Ctrl-C between   *)
(* any two bytes, ended by a read that gets no answer.  The FPGA and the   *)
(* line are CtrlRegs.                                                      *)
(***************************************************************************)
EXTENDS CtrlRegs

CONSTANTS
  Commands,   \* command lines: <<"arm", frame lo, frame hi, bit>>, <<"i2c", byte, stretch lo,
              \* stretch hi>>, <<"can", bit lo, bit hi, width>>, <<"disarm">>, <<"clr">>, <<"status">>
  MaxStarts   \* bound: programs started

ASSUME ArmOK ==
  /\ NREGS >= 5
  /\ {0, 1, 2, 3, 4, 128, 129, 130} \subseteq Addrs /\ {0, 1, 2, 3} \subseteq Payload
  /\ Commands \subseteq ({"arm", "i2c", "can"} \X Payload \X Payload \X Payload)
                        \cup {<<"disarm">>, <<"clr">>, <<"status">>}
  /\ MaxStarts \in Nat

VARIABLES
  cmd,     \* the program that runs, <<>> for none
  step,    \* register accesses it has begun and, for reads, ended
  got,     \* bytes it has read
  starts,
  (* history *)
  last,    \* the last arming command started
  over,    \* it began while the injector was enabled, and did not come to its end
  skew     \* the program that runs met the FSM out of step, or a byte the line made up

cliVars == <<cmd, step, got, starts, last, over, skew>>
armVars == <<vars, cliVars>>

Enabled == regs[0] % 2 = 1
Arms(c) == c[1] \in {"arm", "i2c", "can"}

\* Mutant: the injector is enabled first.
EnableFirst(c) ==
  LET en == IF got = <<>> THEN 0 ELSE got[1] % 2
  IN  CASE c[1] = "arm"    -> << <<4, 0>>, <<0, 1>>, <<3, c[4]>>, <<1, c[2]>>, <<2, c[3]>> >>
        [] c[1] = "i2c"    -> << <<4, 1>>, <<1, c[2]>>, <<2, c[3]>>, <<3, c[4]>>, <<0, 1>> >>
        [] c[1] = "can"    -> << <<4, 2>>, <<1, c[2]>>, <<2, c[3]>>, <<3, c[4]>>, <<0, 1>> >>
        [] c[1] = "disarm" -> << <<0, 0>> >>
        [] c[1] = "clr"    -> << <<0>>, <<0, en + 2>> >>
        [] c[1] = "status" -> << <<128>>, <<129>>, <<130>> >>

\* main: the accesses of a command, a write as <<addr, data>> and a read as <<addr>>.
Script(c) ==
  LET en == IF got = <<>> THEN 0 ELSE got[1] % 2
  IN  CASE c[1] = "arm"    -> << <<4, 0>>, <<3, c[4]>>, <<1, c[2]>>, <<2, c[3]>>, <<0, 1>> >>
        [] c[1] = "i2c"    -> << <<4, 1>>, <<1, c[2]>>, <<2, c[3]>>, <<3, c[4]>>, <<0, 1>> >>
        [] c[1] = "can"    -> << <<4, 2>>, <<1, c[2]>>, <<2, c[3]>>, <<3, c[4]>>, <<0, 1>> >>
        [] c[1] = "disarm" -> << <<0, 0>> >>
        [] c[1] = "clr"    -> << <<0>>, <<0, en + 2>> >>
        [] c[1] = "status" -> << <<128>>, <<129>>, <<130>> >>

ArmInit ==
  /\ Init /\ cmd = <<>> /\ step = 0 /\ got = <<>> /\ starts = 0
  /\ last = <<>> /\ over = FALSE /\ skew = FALSE

\* Python starts in many byte times: what an earlier program sent has gone by, and what it
\* left unread is dropped when the port is opened.
Start(c) ==
  /\ cmd = <<>> /\ starts < MaxStarts
  /\ cmds = <<>> /\ state # "S_R_SEND" /\ tx = <<>>
  /\ cmd' = c /\ step' = 0 /\ got' = <<>> /\ starts' = starts + 1
  /\ last' = IF Arms(c) THEN c ELSE last
  /\ over' = (over \/ (Arms(c) /\ Enabled))
  /\ skew' = (dirty # 0)
  /\ inbuf' = <<>>
  /\ UNCHANGED <<lineVars, fsmVars, tx, txLate, hostVars, noise, dirty>>

\* The next access, when the one before has ended: flush() and a sleep of twenty byte times
\* after a write, the answer to a read.
Idle == cmd # <<>> /\ rd = <<>> /\ cmds = <<>>

reg_write ==
  /\ Idle /\ step < Len(Script(cmd)) /\ Len(Script(cmd)[step + 1]) = 2
  /\ HostWrite(Script(cmd)[step + 1][1], Script(cmd)[step + 1][2])
  /\ step' = step + 1 /\ UNCHANGED <<cmd, got, starts, last, over, skew>>

\* reg_read: what is in the input buffer is dropped before the command goes out.
reg_read ==
  /\ Idle /\ step < Len(Script(cmd)) /\ Len(Script(cmd)[step + 1]) = 1
  /\ \E a \in {Script(cmd)[step + 1][1]} :
       /\ cmds' = <<[op |-> "R", addr |-> a]>> /\ rd' = <<a>> /\ rdval' = <<>>
  /\ inbuf' = <<>>
  /\ UNCHANGED <<pos, fsmVars, tx, txLate, want, noise, dirty, cliVars>>

Recv ==
  /\ inbuf # <<>> /\ got' = Append(got, Head(inbuf)) /\ HostRecv
  /\ step' = step + 1 /\ UNCHANGED <<cmd, starts, last, over, skew>>

\* Mutant: as in RegClient, a read without an answer returns 0.
ZeroOnTimeout ==
  /\ HostTimeout
  /\ got' = Append(got, 0) /\ step' = step + 1 /\ UNCHANGED <<cmd, starts, last, over, skew>>

\* A read without an answer ends the program.
NoResponse ==
  /\ HostTimeout
  /\ cmd' = <<>> /\ UNCHANGED <<step, got, starts, last, over, skew>>

\* The end of main.
Exit ==
  /\ Idle /\ step = Len(Script(cmd))
  /\ cmd' = <<>> /\ over' = (over /\ ~Arms(cmd))
  /\ UNCHANGED <<vars, step, got, starts, last, skew>>

\* Ctrl-C; what is on the line arrives.
Interrupt ==
  /\ cmd # <<>>
  /\ cmd' = <<>> /\ rd' = <<>>
  /\ UNCHANGED <<lineVars, fsmVars, tx, txLate, inbuf, rdval, want, noise, dirty>>
  /\ UNCHANGED <<step, got, starts, last, over, skew>>

ArmNext ==
  \/ \E c \in Commands : Start(c)
  \/ reg_write \/ reg_read \/ Recv \/ NoResponse \/ Exit \/ Interrupt
  \/ (Deliver \/ LoseByte \/ S_R_SEND \/ ClearStrobe \/ TxDone) /\ UNCHANGED cliVars
  \/ /\ \E b \in NoiseBytes : SpuriousByte(b)
     /\ skew' = TRUE /\ UNCHANGED <<cmd, step, got, starts, last, over>>

ArmSpec == ArmInit /\ [][ArmNext]_armVars
-----------------------------------------------------------------------------
\* The parameters of an arming command are in the registers.
Holds(c) == \A i \in DOMAIN Script(c) :
              Script(c)[i][1] # 0 => regs[Script(c)[i][1]] = Script(c)[i][2]

\* Wherever programs are stopped and whatever is run between them, an enabled injector has
\* the whole target of the last arming command: protocol, position and length.  Only an
\* arming command that began while the injector was enabled leaves a mixture, until one
\* comes to its end (arm.py, unlike RegClient's users, does not disarm first).
ArmedWholeByHand == noise = 0 /\ ~over /\ Enabled => Holds(last)

\* clr "keeps enable state": from the read to the write it neither enables nor disables,
\* wherever programs were stopped before, and even if bytes of its own are lost.
ClrKeepsEnable ==
  [][cmd # <<>> /\ cmd[1] = "clr" /\ ~skew' /\ dirty' = 0 => regs'[0] % 2 = regs[0] % 2]_armVars
=============================================================================

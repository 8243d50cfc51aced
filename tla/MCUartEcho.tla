----------------------------- MODULE MCUartEcho -----------------------------
(* Bits of ten clocks.  Hosts 2.5 percent fast and slow that send as close   *)
(* together as they can; and one that leaves a second stop bit, with a reset. *)
EXTENDS UartEcho

MCBytes == { [k \in 0 .. 7 |-> IF k \in ones THEN 1 ELSE 0] : ones \in {{}, {0, 2, 3, 7}} }

Close(r) == [rate |-> r, phases |-> 0 .. SUB - 1, gap |-> 0, glitch |-> 4, resets |-> 0]
Spaced   == [rate |-> 40, phases |-> {0}, gap |-> CLKS_PER_BIT, glitch |-> 0, resets |-> 1]
MCLines  == {Close(39), Close(41), Spaced}
=============================================================================

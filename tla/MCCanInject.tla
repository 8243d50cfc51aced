----------------------------- MODULE MCCanInject -----------------------------
(* Model values for CanInject: five-tick bits, idle after three of them. *)
EXTENDS CanInject

\* The start bit, one bit inside, bits that reach past the frame's end and start
\* where an idle bus is found, disarmed.
MCSettings == { [enable |-> TRUE,  target |-> 0, width |-> 2],
                [enable |-> TRUE,  target |-> 2, width |-> 1],
                [enable |-> TRUE,  target |-> 3, width |-> 3],
                [enable |-> FALSE, target |-> 2, width |-> 1] }
=============================================================================

----------------------------- MODULE MCI2cInject -----------------------------
(* Model values for I2cInject: two-bit bytes, a byte index that wraps early. *)
EXTENDS I2cInject

MCAddr == <<1, 0>>

\* A long and an immediate stretch, disarmed, and SPI selected.
MCSettings == { [enable |-> TRUE,  target |-> 1, len |-> 4, sel |-> TRUE],
                [enable |-> TRUE,  target |-> 0, len |-> 0, sel |-> TRUE],
                [enable |-> FALSE, target |-> 1, len |-> 4, sel |-> TRUE],
                [enable |-> TRUE,  target |-> 1, len |-> 4, sel |-> FALSE] }
=============================================================================

---------------------------- MODULE MCStandalone ----------------------------
(* A campaign of one scenario and one of two, the second shorter than what   *)
(* a task may still hold indices into.                                       *)
EXTENDS Standalone

Fault(p, x, y, e) == [proto |-> p, a |-> x, b |-> y, expect |-> e]

Flip    == Fault("spi", 261, 3, "detected")
Stretch == Fault("i2c", 3, 300, "tolerated")

MCFaults == {Flip, Stretch}
MCShows  == { <<"spi", 261, 3>> }
MCCampaigns == { <<Flip, Stretch>>, <<Stretch>> }
MCSame == { <<Flip>> }
MCFlip == {Flip}
MCStretch == {Stretch}
=============================================================================

----------------------------- MODULE MCCampaign -----------------------------
(* Campaigns of up to MaxFaults scenarios, repeated tuples included, over a  *)
(* flip the firmware reports, a stretch too short to be reported, and a CAN  *)
(* corruption the combined bitstream cannot make.                            *)
EXTENDS Campaign

Fault(p, x, y, e) == [proto |-> p, a |-> x, b |-> y, expect |-> e]

MCFaults == { Fault("spi", 261, 3, "detected"),
              Fault("i2c", 3, 300, "tolerated"), Fault("can", 20, 6, "detected") }
MCShows  == { <<"spi", 261, 3>> }
=============================================================================

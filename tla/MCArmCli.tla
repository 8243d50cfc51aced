----------------------------- MODULE MCArmCli -----------------------------
(***************************************************************************)
(* TLC instance of ArmCli: two SPI targets that differ in every byte, one  *)
(* of each other command.                                                  *)
(***************************************************************************)
EXTENDS ArmCli

MCCommands == { <<"arm", 5, 0, 3>>, <<"arm", 6, 1, 4>>, <<"i2c", 2, 9, 1>>, <<"can", 7, 1, 6>>,
                <<"disarm">>, <<"clr">>, <<"status">> }
=============================================================================

------------------------------ MODULE MCBoard ------------------------------
(***************************************************************************)
(* TLC instance of BoardBuild: the HardFuzz board with the symbols and     *)
(* footprints it uses (of the FPGA's balls a part: of each bank and name,  *)
(* with the first of the banks 34 and 35), and small boards in which two   *)
(* parts lie in every way near each other.                                 *)
(***************************************************************************)
EXTENDS BoardBuild

Pin(n, px, py, a) == [num |-> n, x |-> px, y |-> py, ang |-> a]
Col(px, y0, step, a, nums) == {Pin(nums[i], px, y0 + (i - 1) * step, a) : i \in DOMAIN nums}
Row(py, x0, step, a, nums) == {Pin(nums[i], x0 + (i - 1) * step, py, a) : i \in DOMAIN nums}
Sym(power, units) == [extends |-> "", power |-> power, units |-> units]
Derived(parent) == [extends |-> parent, power |-> "", units |-> <<>>]

MCFpgaOrder == <<
  "A11", "A17", "C13", "D16", "G15", "H16", "K17", "K18", "L13", "L14", "L15", "M14", "K3", "K5"
  , "K6", "L1", "L3", "L4", "L5", "L6", "M1", "M2", "M3", "M4", "M6", "N1", "N2", "E9", "E10", "E11"
  , "E12", "E13", "J9", "J10", "K9", "P7", "P8", "P9", "P10", "P11", "P12", "P13", "A2", "A12", "B5"
  , "B15", "C8", "F8", "F10", "F12", "G7", "H9", "H10", "H12" >>
MCFpgaName ==
  "A11" :> "none" @@ "A17" :> "VCCO" @@ "C13" :> "VCCO" @@ "D16" :> "VCCO" @@ "G15" :> "VCCO"
  @@ "H16" :> "IO_L13P_T2_MRCC_15" @@ "K17" :> "D00_MOSI" @@ "K18" :> "D01_DIN" @@ "L13" :> "FCS_B"
  @@ "L14" :> "D02" @@ "L15" :> "none" @@ "M14" :> "D03" @@ "K3" :> "IO_34_35" @@ "K5" :> "IO_34_35"
  @@ "K6" :> "IO_34_35" @@ "L1" :> "IO_34_35" @@ "L3" :> "IO_34_35" @@ "L4" :> "IO_34_35"
  @@ "L5" :> "none" @@ "L6" :> "IO_34_35" @@ "M1" :> "IO_34_35" @@ "M2" :> "IO_34_35"
  @@ "M3" :> "IO_34_35" @@ "M4" :> "IO_34_35" @@ "M6" :> "IO_34_35" @@ "N1" :> "IO_34_35"
  @@ "N2" :> "IO_34_35" @@ "E9" :> "CCLK_0" @@ "E10" :> "TCK_0" @@ "E11" :> "TDI_0"
  @@ "E12" :> "TMS_0" @@ "E13" :> "TDO_0" @@ "J9" :> "VREFN_0" @@ "J10" :> "VP_0" @@ "K9" :> "VN_0"
  @@ "P7" :> "INIT_B_0" @@ "P8" :> "CFGBVS_0" @@ "P9" :> "PROGRAM_B_0" @@ "P10" :> "DONE_0"
  @@ "P11" :> "M2_0" @@ "P12" :> "M0_0" @@ "P13" :> "M1_0" @@ "A2" :> "GND" @@ "A12" :> "GND"
  @@ "B5" :> "GND" @@ "B15" :> "GND" @@ "C8" :> "GND" @@ "F8" :> "VCCINT" @@ "F10" :> "VCCBRAM"
  @@ "F12" :> "VCCAUX" @@ "G7" :> "VCCINT" @@ "H9" :> "none" @@ "H10" :> "VCCADC"
  @@ "H12" :> "VCCAUX"

Rails == [n \in {"+5V", "+3V3", "+1V0", "+1V8"} |-> Sym(n, 1 :> Row(0, 0, 0, 90, <<"1">>))]

MCLib == Rails
  @@ "AP2112K" :> Sym("", 1 :> (Col(-762, 0, 254, 0, <<"3", "1">>) \cup Row(-762, 0, 0, 90, <<"2">>)
              \cup Col(508, 0, 0, 180, <<"4">>) \cup Col(762, 254, 0, 180, <<"5">>)))
  @@ "ASE" :> Sym("", 1 :> (Col(-762, 0, 0, 0, <<"1">>) \cup Row(-762, 0, 0, 90, <<"2">>)
              \cup Col(762, 0, 0, 180, <<"3">>) \cup Row(762, 0, 0, 270, <<"4">>)))
  @@ "C" :> Sym("", 1 :> (Row(381, 0, 0, 270, <<"1">>) \cup Row(-381, 0, 0, 90, <<"2">>)))
  @@ "Conn_01x03" :> Sym("", 1 :> Col(-508, -254, 254, 0, <<"3", "2", "1">>))
  @@ "Conn_01x04" :> Sym("", 1 :> Col(-508, -508, 254, 0, <<"4", "3", "2", "1">>))
  @@ "Conn_02x05" :> Sym("", 1 :> (Col(-508, -508, 254, 0, <<"9", "7", "5", "3", "1">>)
              \cup Col(762, -508, 254, 180, <<"10", "8", "6", "4", "2">>)))
  @@ "Conn_02x10" :> Sym("", 1 :> (Col(-508, -1270, 254, 0, <<"19", "17", "15", "13", "11", "9",
                  "7", "5", "3", "1">>)
              \cup Col(762, -1270, 254, 180, <<"20", "18", "16", "14", "12", "10", "8", "6", "4", "2">>)))
  @@ "Crystal" :> Sym("", 1 :> (Col(-381, 0, 0, 0, <<"1">>) \cup Row(-508, 0, 0, 90, <<"2", "4">>)
              \cup Col(381, 0, 0, 180, <<"3">>)))
  @@ "D_TVS" :> Sym("", 1 :> (Col(-381, 0, 0, 0, <<"1">>) \cup Col(381, 0, 0, 180, <<"2">>)))
  @@ "ESP32-S3" :> Sym("", 1 :> (Row(-2794, 0, 0, 90, <<"1", "40", "41">>) \cup Row(2794, 0, 0, 270, <<"2">>)
              \cup Col(-1524, -2286, 254, 0, <<"9", "8", "22", "21", "20", "19", "18", "17", "12",
                  "7", "6", "5", "4", "15", "38", "39", "27">>)
              \cup Col(-1524, 2286, 0, 0, <<"3">>)
              \cup Col(1524, -2286, 254, 180, <<"25", "24", "16", "26", "35", "34", "33", "32",
                  "31", "30", "29", "28", "23", "14", "13", "11", "10", "36", "37">>)))
  @@ "FT2232HQ" :> Sym("", 1 :> (Row(-5588, -1524, 0, 90, <<"10">>)
              \cup Row(-5588, -1016, 254, 90, <<"1", "5", "11", "15", "25", "35", "47", "51", "65">>)
              \cup Col(-3048, -4572, 0, 0, <<"13">>) \cup Col(-3048, -4064, 0, 0, <<"3">>)
              \cup Col(-3048, -3048, 0, 0, <<"2">>)
              \cup Col(-3048, -2286, 254, 0, <<"61", "62", "63">>)
              \cup Col(-3048, 1016, 508, 0, <<"14", "6", "8">>) \cup Col(-3048, 2286, 0, 0, <<"7">>)
              \cup Col(-3048, 4318, 508, 0, <<"49", "50">>) \cup Row(5588, -1270, 0, 270, <<"4">>)
              \cup Row(5588, -1016, 0, 270, <<"9">>)
              \cup Row(5588, -508, 254, 270, <<"12", "37", "64">>)
              \cup Row(5588, 508, 254, 270, <<"20", "31", "42", "56">>)
              \cup Col(3048, -4572, 0, 180, <<"36">>) \cup Col(3048, -4318, 0, 180, <<"60">>)
              \cup Col(3048, -3810, 254, 180, <<"59", "58", "57", "55", "54", "53", "52", "48">>)
              \cup Col(3048, -1524, 254, 180, <<"46", "45", "44", "43", "41", "40", "39", "38">>)
              \cup Col(3048, 762, 254, 180, <<"34", "33", "32", "30", "29", "28", "27", "26">>)
              \cup Col(3048, 3048, 254, 180, <<"24", "23", "22", "21", "19", "18", "17", "16">>)))
  @@ "GND" :> Sym("GND", 1 :> Row(0, 0, 0, 270, <<"1">>))
  @@ "L" :> Sym("", 1 :> (Row(381, 0, 0, 270, <<"1">>) \cup Row(-381, 0, 0, 90, <<"2">>)))
  @@ "LED" :> Sym("", 1 :> (Col(-381, 0, 0, 0, <<"1">>) \cup Col(381, 0, 0, 180, <<"2">>)))
  @@ "MX25L3233F" :> Sym("", 1 :> (Col(-1016, -508, 254, 0, <<"1", "9", "8", "15", "16", "7">>)
              \cup Row(1270, 0, 0, 270, <<"2">>) \cup Row(-1270, 0, 0, 90, <<"10">>)))
  @@ "PWR_FLAG" :> Sym("", 0 :> Row(0, 0, 0, 90, <<"1">>))
  @@ "R" :> Sym("", 1 :> (Row(381, 0, 0, 270, <<"1">>) \cup Row(-381, 0, 0, 90, <<"2">>)))
  @@ "SN65HVD230" :> Sym("", 1 :> (Col(-1016, -508, 254, 0, <<"8", "5", "4", "1">>) \cup Row(-1016,
                  0, 0, 90, <<"2">>)
              \cup Row(762, 0, 0, 270, <<"3">>) \cup Col(1016, -254, 254, 180, <<"6", "7">>)))
  @@ "SW_Push" :> Sym("", 0 :> (Col(-508, 0, 0, 0, <<"1">>) \cup Col(508, 0, 0, 180, <<"2">>)))
  @@ "TLV62566" :> Sym("", 1 :> (Col(762, -254, 254, 180, <<"1", "5", "3">>) \cup Row(-762, 0, 0, 90, <<"2">>)
              \cup Col(-762, 254, 0, 0, <<"4">>)))
  @@ "TXS0108E" :> Sym("", 1 :> (Col(-1016, -1016, 254, 0, <<"9", "8", "7", "6", "5", "4", "3", "1", "10">>)
              \cup Row(1778, -254, 508, 270, <<"2", "19">>) \cup Row(-1778, 0, 0, 90, <<"11">>)
              \cup Col(1016, -1016, 254, 180, <<"12", "13", "14", "15", "16", "17", "18", "20">>)))
  @@ "USBLC6" :> Sym("", 1 :> (Col(-508, -254, 254, 0, <<"3", "1">>) \cup Row(-762, 0, 0, 90, <<"2">>)
              \cup Col(508, -254, 254, 180, <<"4", "6">>) \cup Row(508, 0, 0, 270, <<"5">>)))
  @@ "USB_C" :> Sym("", 1 :> (Row(-4064, -762, 0, 90, <<"SH">>)
              \cup Row(-4064, 0, 0, 90, <<"A1", "A12", "B1", "B12">>)
              \cup Col(1524, -3302, 0, 180, <<"B8">>) \cup Col(1524, -3048, 0, 180, <<"A8">>)
              \cup Col(1524, -2540, 0, 180, <<"B2">>) \cup Col(1524, -2286, 0, 180, <<"B3">>)
              \cup Col(1524, -1778, 0, 180, <<"A11">>) \cup Col(1524, -1524, 0, 180, <<"A10">>)
              \cup Col(1524, -1016, 0, 180, <<"A2">>) \cup Col(1524, -762, 0, 180, <<"A3">>)
              \cup Col(1524, -254, 0, 180, <<"B11">>) \cup Col(1524, 0, 0, 180, <<"B10">>)
              \cup Col(1524, 508, 254, 180, <<"B6", "A6", "B7", "A7">>)
              \cup Col(1524, 1778, 0, 180, <<"B5">>) \cup Col(1524, 2032, 0, 180, <<"A5">>)
              \cup Col(1524, 2540, 0, 180, <<"A4", "A9", "B4", "B9">>)))
  @@ "XC7A35T" :> Sym("", 1 :> (Col(5080, -1016, 4318, 180, <<"H16", "A11">>)
              \cup Row(7366, 2794, 254, 270, <<"A17", "C13", "D16", "G15">>)
              \cup Col(-5080, 2540, 0, 0, <<"L13">>)
              \cup Col(-5080, 4064, 254, 0, <<"L15", "M14", "L14", "K18", "K17">>))
        @@ 2 :> (Col(5080, -3556, 0, 180, <<"M6">>) \cup Col(5080, -2540, 0, 180, <<"M4">>)
              \cup Col(5080, 2286, 254, 180, <<"L5", "L6", "L4", "K5", "M2", "M3", "N1", "N2",
                  "L3", "K3", "M1", "L1", "K6">>))
        @@ 3 :> {}
        @@ 4 :> (Col(3810, -3048, 0, 180, <<"J9">>) \cup Col(3810, -2286, 0, 180, <<"K9">>)
              \cup Col(3810, -2032, 508, 180, <<"J10", "P8", "P9">>)
              \cup Col(3810, -762, 0, 180, <<"P7">>) \cup Col(3810, -508, 0, 180, <<"P10">>)
              \cup Col(3810, 0, 254, 180, <<"P11", "P13", "P12", "E9">>)
              \cup Col(3810, 1270, 254, 180, <<"E10", "E12", "E13", "E11">>))
        @@ 5 :> (Col(-2540, 0, 254, 0, <<"C8", "B15", "B5", "A12", "A2">>)
              \cup Col(-2540, 2794, 0, 0, <<"F10">>) \cup Col(-2540, 3302, 0, 0, <<"H10">>)
              \cup Col(-2540, 3556, 0, 0, <<"H9">>) \cup Col(-2540, 4572, 254, 0, <<"H12", "F12">>)
              \cup Col(2540, 4572, 254, 180, <<"G7", "F8">>)))
  @@ "TLV62566B" :> Derived("TLV62566") @@ "TLV62566C" :> Derived("TLV62566B")

Nums(n) == {ToString(i) : i \in 1 .. n}
Mod(ink, crt, pads) == [ink |-> ink, crt |-> crt, pads |-> pads]
Fp(box, pads) == Mod(box, box, pads)

MCMods ==
  "3225-4Pin" :> Fp(<<-210, -175, 210, 175>>, Nums(4))
  @@ "ASE-4Pin" :> Fp(<<-210, -175, 210, 175>>, Nums(4))
  @@ "CSG324" :> Fp(<<-850, -850, 850, 850>>, Range(FpgaOrder))
  @@ "C_0402" :> Fp(<<-91, -46, 91, 46>>, Nums(2))
  @@ "D_SMA" :> Mod(<<-351, -175, 350, 175>>, <<-350, -175, 350, 175>>, Nums(2))
  @@ "ESP32-S3" :> Fp(<<-2400, -2775, 2400, 1345>>, Nums(41))
  @@ "Header_1x03" :> Fp(<<-177, -177, 177, 685>>, Nums(3))
  @@ "Header_2x05" :> Fp(<<-177, -177, 432, 1193>>, Nums(10))
  @@ "Header_2x10" :> Fp(<<-177, -177, 432, 2463>>, Nums(20))
  @@ "JST_SH_1x04" :> Fp(<<-390, -328, 390, 328>>, Nums(4) \cup {"MP"})
  @@ "LED_0603" :> Mod(<<-149, -74, 148, 74>>, <<-148, -73, 148, 73>>, Nums(2))
  @@ "L_0805" :> Fp(<<-175, -85, 175, 85>>, Nums(2))
  @@ "MPT_1x03" :> Fp(<<-200, -360, 708, 360>>, Nums(3))
  @@ "QFN-64" :> Fp(<<-510, -510, 510, 510>>, Nums(65))
  @@ "RS282G05A3" :> Fp(<<-490, -205, 490, 205>>, Nums(2))
  @@ "R_0402" :> Fp(<<-93, -47, 93, 47>>, Nums(2))
  @@ "SOD-923" :> Mod(<<-86, -45, 75, 45>>, <<-75, -45, 75, 45>>, Nums(2))
  @@ "SOIC-8" :> Fp(<<-370, -270, 370, 270>>, Nums(8))
  @@ "SOT-23-5" :> Fp(<<-205, -170, 205, 170>>, Nums(5))
  @@ "SOT-23-6" :> Fp(<<-205, -170, 205, 170>>, Nums(6))
  @@ "TSSOP-20" :> Fp(<<-385, -350, 385, 350>>, Nums(20))
  @@ "USB4085" :> Fp(<<-230, -106, 825, 911>>, {"A1", "A12", "A4", "A5", "A6", "A7", "A8", "A9",
                  "B1", "B12", "B4", "B5", "B6", "B7", "B8", "B9", "SH"})

-----------------------------------------------------------------------------
\* Two sheets with a signal between them; the second resistor or diode of the first sheet
\* lies dx, dy off the first, on it, beside it, or with stubs that cross or meet.
Small(lib, dx, dy) == <<
  <<"Power", << rail("+3V3", 30, 40, "#PWR1"), gnd(30, 90, "#PWR2"),
                res("R1", 80, 60, "SIG", "GND"),
                [res("X2", 80 + dx, 60 + dy, "+3V3", "LOC") EXCEPT !.lib = lib, !.fp = "SOD-923"],
                add("TLV62566C", "U3", 130, 60,
                    On("LOC", {"1", "4"}) @@ On("SIG", {"3", "5"}) @@ "2" :> "GND", "SOT-23-5") >> >>,
  <<"USB", << rail("+3V3", 30, 40, "#PWR3"), res("R4", 60, 60, "SIG", "+3V3"),
              add("Conn_01x03", "J5", 90, 60, "1" :> "SIG" @@ "2" :> "OUT" @@ "3" :> "OUT",
                  "Header_1x03") >> >> >>

Near == {"R", "D_TVS"} \X {0, 4, 5} \X {10, 13, 16}

MCOthers == <<"small">> :> Small("R", 50, 0) @@ [n \in Near |-> Small(n[1], n[2], n[3])]

AnyProgram == {"build", "solo", "export", "pcb", "place", "zones", "fill", "holes"}

Names == {<<"HardFuzz">>, <<"small">>} \cup Near

MCScript == [d \in Names |->
               CASE d = <<"HardFuzz">> -> << {"build"}, {"export"}, {"pcb"}, {"place"} >>
                 [] d = <<"small">> -> << {"build"}, {"export", "solo"}, {"build", "pcb"},
                  AnyProgram, AnyProgram >>
                 [] OTHER -> << {"build", "solo"}, {"pcb"} >>]
MCMaxKills == [d \in Names |-> IF d = <<"small">> THEN 1 ELSE 0]

\* The board as it is has no collision and no wire on a pin without a net.
ASSUME HardFuzzClean == HardFuzz \in CleanDesigns
=============================================================================

---------------------------- MODULE BoardSheets ----------------------------
(***************************************************************************)
(* The HardFuzz board as the sheet generators define it: for every sheet   *)
(* the parts its populate() adds, with position, pin nets and footprint.   *)
(* Symbols and footprints are named by the part of the library name that   *)
(* tells them apart; a power symbol by its net.                            *)
(***************************************************************************)
EXTENDS Kigen, TLC

CONSTANTS
  FpgaOrder,  \* the FPGA symbol's ball numbers in library order
  FpgaName    \* ball -> its pin name, or the tag NameNet and bus_balls have for it

Pair(n1, n2) == "1" :> n1 @@ "2" :> n2
On(net, pinset) == [p \in pinset |-> net]

gnd(px, py, ref) == add("GND", ref, px, py, "1" :> "GND", "")
rail(net, px, py, ref) == add(net, ref, px, py, "1" :> net, "")
flag(net, px, py, ref) == add("PWR_FLAG", ref, px, py, "1" :> net, "")
cap(ref, net, px, py) == add("C", ref, px, py, Pair(net, "GND"), "C_0402")
res(ref, px, py, n1, n2) == add("R", ref, px, py, Pair(n1, n2), "R_0402")
NcUnused(c) == [c EXCEPT !.nc = TRUE]

\* A buck converter U with its inductor L, two capacitors and a feedback divider.
Buck(u, l, c1, c2, r1, r2, px, vin, vout, sw, fb) == <<
  NcUnused(add("TLV62566", u, px, 80,
               "4" :> vin @@ "2" :> "GND" @@ "3" :> sw @@ "5" :> fb, "SOT-23-5")),
  add("L", l, px + 28, 58, Pair(sw, vout), "L_0805"),
  cap(c1, vout, px + 28, 92), cap(c2, vout, px + 43, 92),
  res(r1, px + 58, 72, vout, fb), res(r2, px + 58, 92, fb, "GND") >>

power_sheet == <<
  rail("+5V", 40, 40, "#PWR01"), flag("+5V", 60, 40, "#FLG01"),
  cap("C1", "+5V", 40, 75), cap("C2", "+5V", 55, 75), gnd(47, 95, "#PWR02"),
  rail("+3V3", 130, 40, "#PWR03"), gnd(130, 108, "#PWR04"),
  rail("+1V0", 230, 40, "#PWR05"), gnd(230, 108, "#PWR06"),
  rail("+1V8", 330, 40, "#PWR07"),
  NcUnused(add("AP2112K", "U8", 330, 80, On("+3V3", {"1", "3"}) @@ "2" :> "GND" @@ "5" :> "+1V8",
               "SOT-23-5")),
  cap("C7", "+3V3", 310, 92), cap("C8", "+1V8", 355, 92), gnd(330, 108, "#PWR08") >>
  \o Buck("U6", "L1", "C3", "C4", "R1", "R2", 130, "+5V", "+3V3", "SW_3V3", "FB_3V3")
  \o Buck("U7", "L2", "C5", "C6", "R3", "R4", 230, "+3V3", "+1V0", "SW_1V0", "FB_1V0")

can_sheet == <<
  NcUnused(add("SN65HVD230", "U9", 150, 80,
    "1" :> "CAN_TXD" @@ "2" :> "GND" @@ "3" :> "+3V3" @@ "4" :> "CAN_RXD"
    @@ "6" :> "CANL" @@ "7" :> "CANH" @@ "8" :> "CAN_RS", "SOIC-8")),
  rail("+3V3", 150, 45, "#PWR11"), gnd(150, 112, "#PWR12"),
  cap("C20", "+3V3", 118, 70), res("R20", 185, 92, "CAN_RS", "GND"), gnd(118, 84, "#PWR13"),
  res("R21", 210, 60, "CANH", "CAN_MID"), res("R22", 210, 100, "CAN_MID", "CANL"),
  cap("C21", "CAN_MID", 230, 80), gnd(230, 96, "#PWR14"),
  add("Conn_01x03", "J5", 270, 80, Pair("CANH", "CANL") @@ "3" :> "GND", "MPT_1x03") >>

levelshift_sheet == <<
  add("TXS0108E", "U10", 150, 110,
    "2" :> "+3V3" @@ "19" :> "VREF" @@ "10" :> "LS_OE" @@ "11" :> "GND"
    @@ "1" :> "SPI_SCLK" @@ "3" :> "SPI_MOSI" @@ "4" :> "SPI_MISO" @@ "5" :> "SPI_CS"
    @@ "6" :> "I2C_SCL" @@ "7" :> "I2C_SDA" @@ "8" :> "UART_TTX" @@ "9" :> "UART_TRX"
    @@ "20" :> "SPI_SCLK_B" @@ "18" :> "SPI_MOSI_B" @@ "17" :> "SPI_MISO_B" @@ "16" :> "SPI_CS_B"
    @@ "15" :> "I2C_SCL_B" @@ "14" :> "I2C_SDA_B" @@ "13" :> "UART_TTX_B" @@ "12" :> "UART_TRX_B",
    "TSSOP-20"),
  rail("+3V3", 130, 60, "#PWR20"), gnd(150, 155, "#PWR21"),
  cap("C30", "+3V3", 110, 100), cap("C31", "VREF", 190, 100), res("R30", 130, 75, "+3V3", "LS_OE"),
  res("R31", 210, 80, "I2C_SCL_B", "VREF"), res("R32", 222, 80, "I2C_SDA_B", "VREF"),
  res("R33", 250, 70, "VREF", "VREF_SENSE"), res("R34", 250, 95, "VREF_SENSE", "GND"),
  cap("C32", "VREF", 268, 82), add("D_TVS", "D20", 282, 82, Pair("VREF", "GND"), "SOD-923"),
  gnd(266, 108, "#PWR22"),
  add("Conn_01x04", "J2", 320, 70, Pair("GND", "VREF") @@ "3" :> "I2C_SDA_B" @@ "4" :> "I2C_SCL_B",
      "JST_SH_1x04"),
  add("Conn_02x10", "J3", 360, 130,
    "1" :> "SPI_SCLK_B" @@ "3" :> "SPI_MOSI_B" @@ "5" :> "SPI_MISO_B" @@ "7" :> "SPI_CS_B"
    @@ "9" :> "I2C_SCL_B" @@ "11" :> "I2C_SDA_B" @@ "13" :> "UART_TTX_B" @@ "15" :> "UART_TRX_B"
    @@ "17" :> "TRIG" @@ "19" :> "VREF"
    @@ On("GND", {"2", "4", "6", "8", "10", "12", "14", "16", "18", "20"}), "Header_2x10"),
  add("Conn_02x05", "J4", 420, 130,
    "1" :> "SPI_SCLK_B" @@ "2" :> "SPI_MISO_B" @@ "3" :> "SPI_MOSI_B" @@ "4" :> "SPI_CS_B"
    @@ "5" :> "UART_TTX_B" @@ "6" :> "UART_TRX_B" @@ "7" :> "VREF" @@ "9" :> "TRIG"
    @@ On("GND", {"8", "10"}), "Header_2x05") >>

\* A USB-C receptacle wired for USB 2.
UsbC(ref, px, py, cc1, cc2, dp, dm) ==
  NcUnused(add("USB_C", ref, px, py,
    On("GND", {"A1", "A12", "B1", "B12", "SH"}) @@ On("+5V", {"A4", "A9", "B4", "B9"})
    @@ "A5" :> cc1 @@ "B5" :> cc2 @@ On(dp, {"A6", "B6"}) @@ On(dm, {"A7", "B7"}), "USB4085"))

usb_sheet == <<
  NcUnused(add("FT2232HQ", "U2", 150, 120,
    On("+3V3", {"50", "20", "31", "42", "56"}) @@ On("VDDCORE_FT", {"49", "12", "37", "64", "9", "4"})
    @@ On("GND", {"1", "5", "10", "11", "15", "25", "35", "47", "51", "65", "13"})
    @@ "6" :> "FT_REF" @@ "7" :> "USB_DM" @@ "8" :> "USB_DP" @@ "14" :> "FT_RESET"
    @@ "2" :> "FT_OSCI" @@ "3" :> "FT_OSCO"
    @@ "16" :> "JTAG_TCK" @@ "17" :> "JTAG_TDI" @@ "18" :> "JTAG_TDO" @@ "19" :> "JTAG_TMS", "QFN-64")),
  rail("+3V3", 60, 205, "#PWR30"), gnd(150, 200, "#PWR31"),
  cap("C40", "+3V3", 55, 215), cap("C41", "+3V3", 70, 215), cap("C42", "VDDCORE_FT", 85, 215),
  cap("C43", "VDDCORE_FT", 100, 215), cap("C44", "FT_REF", 115, 215),
  res("R40", 205, 90, "+3V3", "FT_RESET"),
  add("Crystal", "Y2", 90, 160, "1" :> "FT_OSCI" @@ "3" :> "FT_OSCO" @@ On("GND", {"2", "4"}), "3225-4Pin"),
  cap("C45", "FT_OSCI", 60, 170), cap("C46", "FT_OSCO", 75, 170),
  UsbC("J1", 300, 110, "CC1", "CC2", "USB_DP", "USB_DM"),
  rail("+5V", 300, 55, "#PWR32"), gnd(300, 175, "#PWR33"),
  res("R41", 260, 90, "CC1", "GND"), res("R42", 272, 90, "CC2", "GND"), cap("C47", "+5V", 340, 90),
  add("D_TVS", "D31", 355, 90, Pair("+5V", "GND"), "D_SMA"),
  add("USBLC6", "D30", 230, 130,
      On("USB_DP", {"1", "6"}) @@ On("USB_DM", {"3", "4"}) @@ "5" :> "+5V" @@ "2" :> "GND", "SOT-23-6"),
  NcUnused(add("MX25L3233F", "U3", 400, 120,
    "16" :> "FLASH_CCLK" @@ "7" :> "FLASH_CS" @@ "15" :> "FLASH_D0" @@ "8" :> "FLASH_D1"
    @@ "9" :> "FLASH_D2" @@ "1" :> "FLASH_D3" @@ "2" :> "+3V3" @@ "10" :> "GND", "SOIC-8")),
  rail("+3V3", 400, 70, "#PWR34"), gnd(400, 165, "#PWR35"),
  res("R43", 435, 95, "+3V3", "FLASH_CS"), cap("C48", "+3V3", 370, 95) >>

esp32_sheet == <<
  NcUnused(add("ESP32-S3", "U12", 150, 120,
    "2" :> "+3V3" @@ On("GND", {"1", "40", "41"}) @@ "3" :> "ESP_EN" @@ "27" :> "ESP_IO0"
    @@ "13" :> "ESP_USB_DM" @@ "14" :> "ESP_USB_DP" @@ "10" :> "HOST_TXD" @@ "11" :> "HOST_RXD"
    @@ "4" :> "DUT_TXD" @@ "5" :> "DUT_RXD" @@ "38" :> "ESP_STAT", "ESP32-S3")),
  rail("+3V3", 120, 55, "#PWR50"), gnd(150, 175, "#PWR51"),
  cap("C60", "+3V3", 105, 70), cap("C61", "+3V3", 118, 70),
  res("R60", 100, 95, "+3V3", "ESP_EN"), cap("C62", "ESP_EN", 100, 110),
  add("SW_Push", "SW2", 100, 130, Pair("ESP_EN", "GND"), "RS282G05A3"),
  res("R61", 205, 95, "+3V3", "ESP_IO0"),
  add("SW_Push", "SW3", 205, 130, Pair("ESP_IO0", "GND"), "RS282G05A3"),
  res("R62", 205, 155, "ESP_STAT", "ESP_LED_A"),
  add("LED", "D50", 205, 172, Pair("ESP_LED_A", "GND"), "LED_0603"),
  UsbC("J6", 300, 100, "ESP_CC1", "ESP_CC2", "ESP_USB_DP", "ESP_USB_DM"),
  rail("+5V", 300, 50, "#PWR52"), gnd(300, 165, "#PWR53"),
  res("R63", 265, 80, "ESP_CC1", "GND"), res("R64", 277, 80, "ESP_CC2", "GND"), cap("C63", "+5V", 340, 80),
  add("Conn_01x03", "J7", 360, 130, Pair("DUT_TXD", "DUT_RXD") @@ "3" :> "GND", "Header_1x03") >>

-----------------------------------------------------------------------------
(* The FPGA's pins get their nets by name.                                 *)

BUS == << "SPI_SCLK", "SPI_MOSI", "SPI_MISO", "SPI_CS", "I2C_SCL", "I2C_SDA", "UART_TTX",
          "UART_TRX", "CAN_TXD", "CAN_RXD", "TRIG", "HOST_TXD", "HOST_RXD" >>

\* What a name, or the tag that stands for its prefix or infix, is tied to.
NameNet ==
  On("GND", {"GND", "M1_0", "M2_0", "VN_0", "VREFN_0"})
  @@ On("+1V0", {"VCCINT", "VCCBRAM"}) @@ On("+1V8", {"VCCAUX", "VCCADC"})
  @@ On("+3V3", {"VCCO", "M0_0", "CFGBVS_0"})
  @@ "CCLK_0" :> "FLASH_CCLK" @@ "TCK_0" :> "JTAG_TCK" @@ "TDI_0" :> "JTAG_TDI"
  @@ "TDO_0" :> "JTAG_TDO" @@ "TMS_0" :> "JTAG_TMS" @@ "INIT_B_0" :> "FPGA_INIT"
  @@ "PROGRAM_B_0" :> "FPGA_PROG" @@ "DONE_0" :> "FPGA_DONE" @@ "VP_0" :> "VREF_SENSE"
  @@ "D00_MOSI" :> "FLASH_D0" @@ "D01_DIN" :> "FLASH_D1" @@ "D02" :> "FLASH_D2"
  @@ "D03" :> "FLASH_D3" @@ "FCS_B" :> "FLASH_CS" @@ "IO_L13P_T2_MRCC_15" :> "CLK12"

\* The balls of banks 34 and 35 that are no references, in library order.
bus_balls == LET free(n) == FpgaName[n] = "IO_34_35" IN SelectSeq(FpgaOrder, free)

\* _netmap: a pin's net by its name; the bus signals go to the first free balls.
netmap ==
  LET last == Min({Len(BUS), Len(bus_balls)})
  IN  [n \in {m \in DOMAIN FpgaName : FpgaName[m] \in DOMAIN NameNet} |-> NameNet[FpgaName[n]]]
      @@ [n \in {bus_balls[i] : i \in 1 .. last} |->
            BUS[CHOOSE i \in 1 .. last : bus_balls[i] = n]]

fpga_sheet ==
  [u \in 1 .. 5 |->
     [add("XC7A35T", "U1", <<150, 420, 690, 150, 420>>[u], <<150, 150, 150, 470, 470>>[u], netmap,
          "CSG324") EXCEPT !.unit = u, !.stub = FALSE, !.nc = TRUE]]
  \o << rail("+3V3", 700, 470, "#PWR40"), rail("+1V0", 730, 470, "#PWR41"),
        rail("+1V8", 760, 470, "#PWR42"), gnd(790, 470, "#PWR43"),
        add("ASE", "Y1", 700, 540, On("+3V3", {"1", "4"}) @@ "2" :> "GND" @@ "3" :> "CLK12", "ASE-4Pin"),
        cap("C50", "+3V3", 730, 555), res("R50", 150, 640, "+3V3", "FPGA_PROG"),
        add("SW_Push", "SW1", 180, 655, Pair("FPGA_PROG", "GND"), "RS282G05A3"),
        res("R51", 220, 640, "+3V3", "FPGA_INIT"), res("R52", 260, 640, "+3V3", "FPGA_DONE"),
        res("R53", 300, 640, "FPGA_DONE", "DONE_LED"),
        add("LED", "D40", 300, 660, Pair("DONE_LED", "GND"), "LED_0603"), gnd(200, 675, "#PWR44"),
        cap("C51", "+1V0", 480, 640), cap("C52", "+1V8", 540, 640), cap("C53", "+3V3", 600, 640) >>

-----------------------------------------------------------------------------
BLOCKS == << <<"FPGA", fpga_sheet>>, <<"Power", power_sheet>>, <<"CAN", can_sheet>>,
             <<"Level Shift", levelshift_sheet>>, <<"USB", usb_sheet>>, <<"ESP32", esp32_sheet>> >>
=============================================================================

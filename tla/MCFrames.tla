------------------------------ MODULE MCFrames ------------------------------
(* The frames of both links in one run.  Nothing connects the two models: a *)
(* behaviour is one of PcFrames, with the channels that hal.c reports and   *)
(* what they can measure, or one of DutFrames, with a hundred barcodes.     *)
EXTENDS PcFrames, DutFrames

FramesInit == Init /\ DutInit

FramesNext ==
  \/ code = << >> /\ Next /\ UNCHANGED dutvars
  \/ packed = << >> /\ recv = << >> /\ DutNext /\ UNCHANGED vars

FramesSpec == FramesInit /\ [][FramesNext]_<< vars, dutvars >>

\* Every digit at every place, next to every other digit.
MCBarcodes == {[i \in 1 .. 10 |-> (a * i + b) % 10] : a \in 0 .. 9, b \in 0 .. 9}

MCCodes    == -3 .. 1
MCChannels == {"v24", "v12", "v5", "v3d3", "cur", "temp"}

\* The arguments of packet_float in test_v24, test_v12, test_v5 (and test_v6),
\* test_v3d3, test_current, and test_temp (and test_hall).
MCDigits ==
  [c \in MCChannels |->
     CASE c \in {"v24", "v12"} -> [itg |-> 2, dcm |-> 2]
       [] c \in {"v5", "v3d3"} -> [itg |-> 1, dcm |-> 2]
       [] c = "cur"            -> [itg |-> 4, dcm |-> 0]
       [] OTHER                -> [itg |-> 1, dcm |-> 0]]

\* From zero to full scale, of the ADC behind each divider and of a byte of the
\* device, at both ends and where the number of digits changes.
Scale(top, mid) == {0, 9, 10, 11, mid - 1, mid, mid + 1, top - 1, top}

MCSpan ==
  [c \in MCChannels |->
     CASE c = "v24"  -> Scale(2574, 1000)
       [] c = "v12"  -> Scale(1349, 1000)
       [] c = "v5"   -> Scale(660, 100)
       [] c = "v3d3" -> Scale(363, 100)
       [] c = "cur"  -> Scale(1650, 1000)
       [] OTHER      -> Scale(255, 100) \union {1, 25, 109, 110}]

\* "barcode:" with its ten digits.
Barcode(d) == << 98, 97, 114, 99, 111, 100, 101, 58 >> \o [i \in 1 .. 10 |-> 48 + d[i]]

\* Barcodes whose CRC ends in a zero byte; the second one's is zero.
ZeroEnding == Barcode(<< 4, 6, 3, 7, 3, 4, 4, 2, 8, 9 >>)
ZeroCrc    == Barcode(<< 1, 5, 8, 6, 8, 3, 7, 4, 9, 5 >>)

\* The entries of cmd_list, as bytes: v5, v3d3, v24, v6, v12, pwr_on,
\* pwr_off, LCcurrent, can, motor, hall, temp, force_pwr_on, and barcodes.
MCTexts == {
   << 118, 53 >>,
   << 118, 51, 100, 51 >>,
   << 118, 50, 52 >>,
   << 118, 54 >>,
   << 118, 49, 50 >>,
   << 112, 119, 114, 95, 111, 110 >>,
   << 112, 119, 114, 95, 111, 102, 102 >>,
   << 76, 67, 99, 117, 114, 114, 101, 110, 116 >>,
   << 99, 97, 110 >>,
   << 109, 111, 116, 111, 114 >>,
   << 104, 97, 108, 108 >>,
   << 116, 101, 109, 112 >>,
   << 102, 111, 114, 99, 101, 95, 112, 119, 114, 95, 111, 110 >>,
   Barcode(<< 0, 1, 2, 3, 4, 5, 6, 7, 8, 9 >>), ZeroEnding, ZeroCrc}
=============================================================================

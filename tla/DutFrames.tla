----------------------------- MODULE DutFrames -----------------------------
(***************************************************************************)
(* The frames the fixture sends to the device under test and expects from  *)
(* it: the ones typed into tool.c, and the one test_barcode builds from    *)
(* the ten digits of the PC's command.  A frame is 55 AA, an identifier,   *)
(* the length of what follows, an index, a body, and the CRC of all that   *)
(* is between the header and the CRC, low byte first.                      *)
(***************************************************************************)
EXTENDS Integers, Sequences, Bits

CONSTANT Barcodes       \* the sequences of ten digits the PC sends

ASSUME DutFramesAssumption == Barcodes \subseteq [1 .. 10 -> 0 .. 9]

\* LED_ON, BEEP_ON, BEEP_OFF, TMP_CHECK, HALL_CHECK, OLED_ON, MOTOR_ON,
\* MOTOR_OFF, CAN_CHECK.
Requests == {
   << \h55, \hAA, \h00, \h06, \h01, \h01, \hC8, \h9E, \h60, \h3D >>,
   << \h55, \hAA, \h00, \h06, \h02, \h01, \h5F, \h36, \h77, \hE6 >>,
   << \h55, \hAA, \h00, \h06, \h02, \h00, \hE8, \h2B, \hB6, \hE2 >>,
   << \h55, \hAA, \h00, \h06, \h03, \hFF, \hD1, \h0C, \h4C, \h1A >>,
   << \h55, \hAA, \h00, \h06, \h04, \hFF, \hC5, \h27, \hAF, \hE1 >>,
   << \h55, \hAA, \h00, \h06, \h05, \h01, \h4B, \h1D, \h94, \h1D >>,
   << \h55, \hAA, \h00, \h06, \h06, \h01, \hDC, \hB5, \h83, \hC6 >>,
   << \h55, \hAA, \h00, \h06, \h06, \h00, \h6B, \hA8, \h42, \hC2 >>,
   << \h55, \hAA, \h00, \h06, \h07, \hFF, \h52, \h8F, \hB8, \h3A >> }

\* LED_ACK, BEEP_ACK, TMP_ACK, HALL_OPEN, HALL_CLOSE, OLED_ACK,
\* MOTOR_ACK, CAN_ACK.
Acks == {
   << \h55, \hAA, \h01, \h06, \h01, \h00, \h7A, \hD5, \h05, \hD1 >>,
   << \h55, \hAA, \h01, \h06, \h02, \h00, \hED, \h7D, \h12, \h0A >>,
   << \h55, \hAA, \h01, \h08, \h03, \h00, \h1D, \h00, \h22, \h31, \h63, \h16 >>,
   << \h55, \hAA, \h01, \h08, \h04, \h00, \h01, \h00, \hDE, \h22, \h53, \h66 >>,
   << \h55, \hAA, \h01, \h08, \h04, \h00, \h00, \h00, \h53, \h45, \h5E, \h2F >>,
   << \h55, \hAA, \h01, \h06, \h05, \h00, \hF9, \h56, \hF1, \hF1 >>,
   << \h55, \hAA, \h01, \h08, \h06, \h00, \h3F, \h00, \h5F, \hD7, \h6A, \hC0 >>,
   << \h55, \hAA, \h01, \h06, \h07, \h00, \hE3, \h99, \hEB, \h63 >> }

VARIABLES code,         \* the frame without its CRC
          crc,          \* the CRC that goes with it, << >> while it is computed
          reg, fed,     \* the register of the CRC unit, the bytes written to it
          digits        \* history: the digits it is made from, if it is

dutvars == << code, crc, reg, fed, digits >>

DutInit ==
  code = << >> /\ crc = << >> /\ reg = << 0, 0 >> /\ fed = 0 /\ digits = << >>

-----------------------------------------------------------------------------
(* The CRC unit of the STM32: 32-bit words into 04C11DB7, high bit first.  *)
(* The register is kept as two halves, for TLC's integers are 32 bits.     *)

Shift(c) ==
  LET out == c[1] \div 2 ^ 15
      hi  == ((2 * c[1]) % 2 ^ 16) + (c[2] \div 2 ^ 15)
      lo  == (2 * c[2]) % 2 ^ 16
  IN IF out = 1 THEN << hi ^^ \h04C1, lo ^^ \h1DB7 >> ELSE << hi, lo >>

Word[c \in Nat \X Nat] ==
  [byte \in Nat |->
     LET after[n \in 0 .. 32] ==
           IF n = 0 THEN << c[1], c[2] ^^ byte >> ELSE Shift(after[n - 1])
     IN after[32]]

\* CRC_ResetDR
Reset == reg' = << \hFFFF, \hFFFF >> /\ fed' = 0

\* What the CRC covers: all but the header.
Covered == SubSeq(code, 3, Len(code))

\* The register after all bytes of a frame.
Register(bytes) ==
  LET after[n \in 0 .. Len(bytes)] ==
        IF n = 0 THEN << \hFFFF, \hFFFF >> ELSE Word[after[n - 1]][bytes[n]]
  IN after[Len(bytes)]

LowFirst(r) == << r[2] % 256, r[2] \div 256, r[1] % 256, r[1] \div 256 >>

\* The constants carry the right CRC.  Nothing here is a parameter.
ASSUME TypedFrames ==
  \A f \in Requests \union Acks :
    SubSeq(f, Len(f) - 3, Len(f)) = LowFirst(Register(SubSeq(f, 3, Len(f) - 4)))

\* One turn of the loop of u8CRC_CalcBlockCRC: every byte is a word of its own.
u8CRC_CalcBlockCRC ==
  /\ fed < Len(Covered)
  /\ reg' = Word[reg][Covered[fed + 1]]
  /\ fed' = fed + 1
  /\ UNCHANGED << code, crc, digits >>

Summed == code # << >> /\ fed = Len(Covered)

-----------------------------------------------------------------------------
\* recv_buf while the command is executed: header, "barcode:", the digits as
\* characters.  test_barcode takes them from there, at fixed places.
RecvBuf(b) == << \hAA, 98, 97, 114, 99, 111, 100, 101, 58 >>
                \o [i \in 1 .. 10 |-> b[i] + 48]

\* Mutant of Pair: the two digits become a number, not a digit each half.
PairDecimal(recv_buf, i) ==
  ((recv_buf[i] - 48) * 10 + (recv_buf[i + 1] - 48)) % 256

\* Two characters of recv_buf, from place i on, as one byte.
Pair(recv_buf, i) == ((recv_buf[i] - 48) * 16 + (recv_buf[i + 1] - 48)) % 256

test_barcode(b) ==
  LET recv_buf == RecvBuf(b) IN
  /\ code' = << \h55, \hAA, \h00, \h0A, \h08 >>
                \o [i \in 1 .. 5 |-> Pair(recv_buf, 8 + 2 * i)]
  /\ crc' = << >>
  /\ digits' = b
  /\ Reset

\* Mutant of test_barcode_crc: the CRC goes out high byte first.
HighFirstCrc ==
  /\ Summed /\ crc = << >>
  /\ crc' = << reg[1] \div 256, reg[1] % 256, reg[2] \div 256, reg[2] % 256 >>
  /\ UNCHANGED << code, reg, fed, digits >>

\* code[10 .. 13]
test_barcode_crc ==
  /\ Summed /\ crc = << >>
  /\ crc' = LowFirst(reg)
  /\ UNCHANGED << code, reg, fed, digits >>

\* One of the constants, whose CRC the reader sums up again.
Typed(f) ==
  /\ code' = SubSeq(f, 1, Len(f) - 4)
  /\ crc' = SubSeq(f, Len(f) - 3, Len(f))
  /\ digits' = << >>
  /\ Reset

DutNext ==
  \/ u8CRC_CalcBlockCRC \/ test_barcode_crc
  \/ /\ code = << >> \/ (Summed /\ crc # << >>)
     /\ \/ \E f \in Requests \union Acks : Typed(f)
        \/ \E b \in Barcodes : test_barcode(b)

DutSpec == DutInit /\ [][DutNext]_dutvars

-----------------------------------------------------------------------------
\* Every frame is one that its reader accepts: header, length and CRC fit the
\* rest, in the seventeen that were typed in as in those that are computed.
DutFrameRight ==
  Summed /\ crc # << >> =>
    /\ SubSeq(code, 1, 2) = << \h55, \hAA >>
    /\ code[4] = Len(code) + Len(crc) - 4
    /\ crc = LowFirst(reg)

\* The device receives the digits the PC sent, two to a byte and in order.
BarcodeArrives ==
  digits # << >> =>
    [i \in 1 .. 10 |-> IF i % 2 = 1 THEN code[5 + (i + 1) \div 2] \div 16
                       ELSE code[5 + i \div 2] % 16] = digits
=============================================================================

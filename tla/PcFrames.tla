------------------------------ MODULE PcFrames ------------------------------
(***************************************************************************)
(* The replies the fixture packs for the PC, byte by byte: packet_hex and  *)
(* packet_float of tool.c over the one send buffer they share, and what    *)
(* verify_data says of the frames the PC sends.                            *)
(***************************************************************************)
EXTENDS Verify

CONSTANTS MaxLen,       \* MAX_LEN
          Codes,        \* what packet_hex is called with
          Channels,     \* the measured values there are
          Digits,       \* the digits before and after the point they ask for
          Span,         \* which values each takes, in units of its last digit
          Texts         \* the commands the PC sends, as bytes

ASSUME PcFramesAssumption ==
  /\ MaxLen \in Nat /\ MaxLen > 16
  /\ Codes \subseteq {-3, -2, -1, 0, 1}
  /\ Digits \in [Channels -> [itg : 1 .. 4, dcm : 0 .. 2]]
  /\ \A c \in Channels : \A val \in Span[c] : val \in Nat /\ val < 10 ^ 9
  /\ Texts \subseteq Seq(Byte) \ {<< >>}

VARIABLES send_buf, send_len,   \* of uart_pc
          packed,               \* history: what was packed last
          recv                  \* uart_pc.recv_buf[0 .. recv_len - 1]

vars == << send_buf, send_len, packed, recv >>

Blank == 32
Dot   == 46
Minus == 45
Zero  == 48

Init ==
  /\ send_buf = [i \in 1 .. MaxLen |-> 0] /\ send_len = 0
  /\ packed = << >> /\ recv = << >>

\* memset, then bytes from the start of the buffer.
Fresh(bytes) ==
  [i \in 1 .. MaxLen |-> IF i <= Len(bytes) THEN bytes[i] ELSE 0]

\* Mutant of HexBody: the two bytes of a CRC are swapped.
HexBodySwapped(val) ==
  CASE val = 0  -> << Zero, \h14, \h00 >>
    [] val = 1  -> << Zero + 1, \hC1, \hD4 >>
    [] val = -1 -> << Minus, Zero + 1, \h84, \hDC >>
    [] val = -2 -> << Minus, Zero + 2, \h85, \h9C >>
    [] OTHER    -> << Minus, Zero + 3, \h45, \h5D >>

\* The texts and CRCs packet_hex writes, for BAD, GOOD, ERROR_COM, ERROR_VOL
\* and anything else.
HexBody(val) ==
  CASE val = 0  -> << Zero, \h14, \h00 >>
    [] val = 1  -> << Zero + 1, \hD4, \hC1 >>
    [] val = -1 -> << Minus, Zero + 1, \h84, \hDC >>
    [] val = -2 -> << Minus, Zero + 2, \h85, \h9C >>
    [] OTHER    -> << Minus, Zero + 3, \h45, \h5D >>

packet_hex(val) ==
  LET body == HexBody(val) IN
  /\ send_buf' = Fresh(<< Header >> \o body \o << Ending >>)
  /\ send_len' = Len(body) + 2
  /\ packed' = << "hex", val >>
  /\ recv' = << >>

\* The decimal digits of n, at least k of them.
Decimal(n, k) ==
  LET d == CHOOSE d \in k .. 9 :
             n < 10 ^ d /\ \A e \in k .. d - 1 : n >= 10 ^ e
  IN [i \in 1 .. d |-> Zero + ((n \div 10 ^ (d - i)) % 10)]

\* What sprintf makes of "%<itg>.<dcm>f": the width counts the whole text.
Format(val, itg, dcm) ==
  LET scale == 10 ^ dcm
      text  == Decimal(val \div scale, 1)
                 \o (IF dcm = 0 THEN << >>
                     ELSE << Dot >> \o Decimal(val % scale, dcm))
      pad   == IF Len(text) < itg THEN itg - Len(text) ELSE 0
  IN [i \in 1 .. pad |-> Blank] \o text

\* Mutant of packet_float: the point is not counted.
PacketFloatShort(channel, val) ==
  LET itg  == Digits[channel].itg
      dcm  == Digits[channel].dcm
      len  == itg + dcm
      text == Fresh(<< Header >> \o Format(val, itg, dcm))
      crc  == crc16_calc(SubSeq(text, 2, len + 1))
  IN /\ send_buf' = [text EXCEPT ![len + 2] = crc \div 256,
                                 ![len + 3] = crc % 256,
                                 ![len + 4] = Ending]
     /\ send_len' = len + 4
     /\ packed' = << channel, val >>
     /\ recv' = << >>

\* The text goes in as long as it is; the CRC and the ending are put where it
\* should end, and over it if it does not.
packet_float(channel, val) ==
  LET itg  == Digits[channel].itg
      dcm  == Digits[channel].dcm
      len  == itg + dcm + 1
      text == Fresh(<< Header >> \o Format(val, itg, dcm))
      crc  == crc16_calc(SubSeq(text, 2, len + 1))
  IN /\ send_buf' = [text EXCEPT ![len + 2] = crc \div 256,
                                 ![len + 3] = crc % 256,
                                 ![len + 4] = Ending]
     /\ send_len' = len + 4
     /\ packed' = << channel, val >>
     /\ recv' = << >>

\* The PC frames a command, with a right CRC, and it comes through whole.  The
\* link carries one frame at a time: the reply before it has been read, and the
\* command is gone from the buffer (recv_len = 0) when the next reply is.
PcSends(text) ==
  /\ recv' = Command(text)
  /\ packed' = << >>
  /\ UNCHANGED << send_buf, send_len >>

Next ==
  \/ \E text \in Texts : PcSends(text)
  \/ \E val \in Codes : packet_hex(val)
  \/ \E c \in Channels : \E val \in Span[c] : packet_float(c, val)

Spec == Init /\ [][Next]_vars

-----------------------------------------------------------------------------
Body == SubSeq(send_buf, 2, send_len - 3)

\* Every reply carries the CRC of its text, high byte first: five of them are
\* typed in as numbers, the others are computed over a text whose length
\* packet_float only guesses.
ReplyCrcRight ==
  packed # << >> =>
    Polynomial(Body) = 256 * send_buf[send_len - 2] + send_buf[send_len - 1]

\* A CRC that ends in a zero byte is the one verify_data does not take for
\* right, unless all of it is zero.
Takes(text) == Polynomial(text) % 256 # 0 \/ Polynomial(text) = 0

\* Of the commands that come through whole, with the right CRC, verify_data turns
\* down those whose CRC ends in a zero byte, and no other: it runs the CRC over a
\* byte too many and compares it with the high byte alone.
OnlyZeroEndingsRefused ==
  \A text \in Texts :
    recv = Command(text) => (verify_data(recv) = 1 <=> Takes(text))

\* A command that comes through whole, with the right CRC, is taken: the comment
\* of verify_data has 2 returned for a CRC error alone.  Some barcodes are turned
\* down, so this does not hold.
RightFramesVerify == recv # << >> => verify_data(recv) = 1

\* One damaged bit of the text always shows in the CRC.
OneBitShows ==
  packed # << >> =>
    \A i \in 1 .. Len(Body), b \in 0 .. 7 :
      crc16_calc([Body EXCEPT ![i] = @ ^^ (2 ^ b)]) # crc16_calc(Body)

\* What a reader of the reply takes the text for: its digits.
Read(text) ==
  LET number[i \in 0 .. Len(text)] ==
        IF i = 0 THEN 0
        ELSE IF text[i] \in Zero .. Zero + 9
             THEN 10 * number[i - 1] + text[i] - Zero
             ELSE number[i - 1]
  IN number[Len(text)]

\* A value has its digits before the point where packet_float expects them: one
\* more if there is no point.
Room(c) == IF Digits[c].dcm = 0 THEN Digits[c].itg + 1 ELSE Digits[c].itg
Fits(c, val) == val \div 10 ^ Digits[c].dcm < 10 ^ Room(c)

\* A reply carries the leading digits of what was measured, under a right CRC,
\* and all of them exactly if packet_float has the room: what it cuts off is
\* always the end, with the point counted or not.
ReplyShowsLeadingDigits ==
  packed # << >> /\ packed[1] # "hex" =>
    \E lost \in 0 .. 9 :
      /\ Read(Body) = packed[2] \div 10 ^ lost
      /\ lost = 0 <=> Fits(packed[1], packed[2])

\* A measured value arrives as it was measured: test_temp and test_hall say they
\* send the byte of the device.  They have room for two digits, so this does not
\* hold from 100 on.
ReplyCarriesValue ==
  packed # << >> /\ packed[1] # "hex" => Read(Body) = packed[2]
=============================================================================

------------------------------- MODULE Verify -------------------------------
(***************************************************************************)
(* A command as it goes down the line, and what verify_data of tool.c says *)
(* of a buffer, byte by byte.                                              *)
(***************************************************************************)
EXTENDS Crc16

Header == \hAA
Ending == \hA5

\* The PC frames a text, with its right CRC, high byte first.
Command(text) ==
  LET crc == Polynomial(text)
  IN << Header >> \o text \o << crc \div 256, crc % 256, Ending >>

\* Mutant of verify_data: the CRC must agree, and still covers a byte too many.
VerifyStrictly(buf) ==
  LET len == Len(buf) IN
  IF len <= 4 THEN -1
  ELSE IF ~(buf[1] = Header /\ buf[len] = Ending) THEN 3
  ELSE IF crc16_calc(SubSeq(buf, 2, len - 2)) = 256 * buf[len - 2] + buf[len - 1]
       THEN 1 ELSE 2

\* verify_data(buf, len), with the indices of the code raised by one.  Its
\* condition groups as (crc == hi << 8) | lo, and crc runs over the len - 3
\* bytes after the header, the high byte of the CRC included.  The ending is
\* told by its value, which a byte of the CRC may have as well.
verify_data(buf) ==
  LET len == Len(buf) IN
  IF len <= 4 THEN -1
  ELSE IF ~(buf[1] = Header /\ buf[len] = Ending) THEN 3
  ELSE IF \/ buf[len - 1] # 0
          \/ crc16_calc(SubSeq(buf, 2, len - 2)) = 256 * buf[len - 2]
       THEN 1 ELSE 2
=============================================================================

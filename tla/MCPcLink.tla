------------------------------ MODULE MCPcLink ------------------------------
(* PcLink with values for its constants.                                    *)
EXTENDS PcLink

\* Frames of 5 and 6 bytes: the shortest verify_data takes, and one more.  With
\* a buffer of 8 one frame fits and two do not.

\* "1", with CRC D4C1; "p6", with CRC D6A5, whose low byte is the ending's;
\* "v6", with CRC 76A6; and "0", with CRC 1400, whose low byte is zero.
One == << 49 >>
P6  == << 112, 54 >>
V6  == << 118, 54 >>
Nil == << 48 >>

\* "barcode:2491894723", with CRC E4A5, in the buffer of the code.
Barcode ==
  << 98, 97, 114, 99, 111, 100, 101, 58, 50, 52, 57, 49, 56, 57, 52, 55, 50, 51 >>

MCTextAny    == << One, P6 >>
MCTextPolite == << Nil, P6, One >>
MCTextLossy  == << One, V6 >>
MCTextCut    == << Barcode >>
=============================================================================

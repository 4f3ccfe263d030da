-------------------------------- MODULE Bits --------------------------------
(***************************************************************************)
(* The exclusive or of C on words of sixteen bits, bit by bit from the     *)
(* lowest on.                                                              *)
(***************************************************************************)
EXTENDS Integers

Byte    == 0 .. 255
MaxWord == 65535
Word16  == 0 .. MaxWord

xor[a \in Word16] ==
  [b \in Nat |-> IF a = 0 THEN b
                 ELSE 2 * xor[a \div 2][b \div 2] + ((a + b) % 2)]

a ^^ b == xor[a][b]
=============================================================================
